---- MODULE Spec2Model ----
(***************************************************************************)
(* Chaos scenario execution engine (tools/chaos/chaos_runner.py):          *)
(* ChaosRunner.run drives the steps of a scenario through _execute_step    *)
(* and _assert_slo, a ChaosRunRecorder accumulates the outcomes in memory  *)
(* and writes one JSON file at finalize/abort.                             *)
(*                                                                         *)
(* Modelling conventions                                                   *)
(*   Optional[x]   None is <<>>, a present value v is <<v>>.               *)
(*   dict          a function whose domain is a set of strings (a record). *)
(*   str           file names, scenario ids and notes are sequences of     *)
(*                 one-character strings, other strings are atoms.         *)
(*   float         metric values and thresholds are small integers.        *)
(*   exception     a record with a `type` field and the values the         *)
(*                 exception's message is formatted from.                  *)
(***************************************************************************)
EXTENDS Integers, Sequences, FiniteSets, TLC

VARIABLES
    scenarios,  \* ChaosRunner.scenarios: scenario id -> ChaosScenario
    now,        \* the UTC wall clock, in whole seconds
    files,      \* the content of RUN_DIR: file name -> content
    pc,         \* per invocation of run: where its control is
    inv,        \* per invocation: the arguments of run and the runner's endpoint
    recorder,   \* per invocation: its ChaosRunRecorder
    idx,        \* per invocation: position of the for loop in scenario.steps
    result,     \* per invocation: the dict _execute_step returned for the step
    exc,        \* per invocation: the exception in flight / raised to the caller
    spawned,    \* per invocation: number of subprocess.run calls made
    calls,      \* per invocation: the calls run has made so far, in order
    ret,        \* per invocation: the value run returned to its caller
    definitions,\* the parsed JSON files of SCENARIO_DIR, in glob order
    replayed    \* per process: the payload replay loaded and what it printed

vars == <<scenarios, now, files, pc, inv, recorder, idx, result, exc, spawned, calls,
          ret, definitions, replayed>>

\* ---------------------------------------------------------------- bounds
MaxSteps == 2       \* longest scenario of the sequential specification
MaxConcSteps == 1   \* longest scenario of the concurrent specification
MaxClock == 1       \* the clock runs over 0..MaxClock seconds
MaxLoadSteps == 2   \* longest steps array of a scenario definition that is loaded

MaxFiles == 3       \* most definition files of a SCENARIO_DIR that is listed

MaxValue == 2       \* metric values are 0..MaxValue
MaxThreshold == 1   \* SLO thresholds are 0..MaxThreshold
MaxCalls == 4       \* calls a client makes on a recorder it drives itself

Runs == {"r1", "r2"}

None == <<>>
Some(v) == <<v>>
Falsy(opt) == opt = None \/ opt = Some("")

Values == 0..MaxValue
Thresholds == 0..MaxThreshold
Comparisons == {"<=", ">="}

\* ------------------------------------------------------------ data model
SLOExpectation(name, comparison, threshold) ==
    [name |-> name, comparison |-> comparison, threshold |-> threshold]

AllSLOs == {SLOExpectation("latency_p95", c, t) : c \in Comparisons, t \in Thresholds}

ChaosStep(id, action, command, query, expected_slo) ==
    [id |-> id, action |-> action, command |-> command, query |-> query,
     expected_slo |-> expected_slo]

ChaosScenario(id, steps) ==
    [id |-> id, title |-> <<"t">> \o id, steps |-> steps]

\* ------------------------------------------------- results and exceptions
Return(v) == [raised |-> FALSE, value |-> v, spawned |-> 0]
Raise(e) == [raised |-> TRUE, error |-> e, spawned |-> 0]
Spawning(out) == [out EXCEPT !.spawned = 1]

ValueError(step, what) == [type |-> "ValueError", step |-> step.id, what |-> what]
KeyError(scenario_id) == [type |-> "KeyError", scenario |-> scenario_id]
URLError == [type |-> "URLError"]
OSError(path) == [type |-> "OSError", path |-> path]
CalledProcessError(cmd, proc) ==
    [type |-> "CalledProcessError", cmd |-> cmd, returncode |-> proc.returncode,
     stdout |-> proc.stdout, stderr |-> proc.stderr]
AssertionError(step, value) ==
    [type |-> "AssertionError", step |-> step.id,
     name |-> step.expected_slo[1].name, value |-> value,
     comparison |-> step.expected_slo[1].comparison,
     threshold |-> step.expected_slo[1].threshold]

\* Mutant of Str: the description names the kind of the error only.
Str_kind_only(e) == [type |-> e.type]

\* str(exc): CalledProcessError.__str__ prints the command and the exit status
\* only; the other exceptions print the message they were built with.
Str(e) ==
    IF e.type = "CalledProcessError"
    THEN [type |-> e.type, cmd |-> e.cmd, returncode |-> e.returncode]
    ELSE e

\* ------------------------------------------------ ChaosScenario.from_dict
\* A JSON object is a record of optional entries: None stands for a key that
\* is absent, Some(v) for a key whose value is v.
RawSLO(name, comparison, threshold) ==
    [name |-> name, comparison |-> comparison, threshold |-> threshold]

\* The JSON object {}.
EmptyDict == RawSLO(None, None, None)

RawStep(id, action, command, query, expected_slo) ==
    [id |-> id, action |-> action, command |-> command, query |-> query,
     expected_slo |-> expected_slo]

RawScenario(id, title, steps) == [id |-> id, title |-> title, steps |-> steps]

MissingKey(key) == [type |-> "KeyError", key |-> key]
BadComparison(comparison) ==
    [type |-> "ValueError", what |-> "unsupported comparison",
     comparison |-> comparison]
NoSteps(scenario_id) ==
    [type |-> "ValueError", what |-> "no steps", scenario |-> scenario_id]

\* Mutant of slo_from_dict: the comparison is taken as it is given.
slo_from_dict_any_comparison(raw) ==
    IF raw.name = None THEN Raise(MissingKey("name"))
    ELSE IF raw.comparison = None THEN Raise(MissingKey("comparison"))
    ELSE IF raw.threshold = None THEN Raise(MissingKey("threshold"))
    ELSE Return(SLOExpectation(raw.name[1], raw.comparison[1], raw.threshold[1]))

\* SLOExpectation(name=raw["name"], comparison=raw["comparison"],
\* threshold=float(raw["threshold"])), then __post_init__.
slo_from_dict(raw) ==
    IF raw.name = None THEN Raise(MissingKey("name"))
    ELSE IF raw.comparison = None THEN Raise(MissingKey("comparison"))
    ELSE IF raw.threshold = None THEN Raise(MissingKey("threshold"))
    ELSE IF raw.comparison[1] \notin Comparisons
    THEN Raise(BadComparison(raw.comparison[1]))
    ELSE Return(SLOExpectation(raw.name[1], raw.comparison[1], raw.threshold[1]))

\* One turn of the loop of from_dict: an expected_slo that is absent or falsy
\* ({} or null) gives a step without SLO.
step_from_dict(raw) ==
    LET supplied == raw.expected_slo # None /\ raw.expected_slo[1] # EmptyDict
        slo == IF supplied THEN slo_from_dict(raw.expected_slo[1])
               ELSE Return(None)
    IN  IF slo.raised THEN slo
        ELSE IF raw.id = None THEN Raise(MissingKey("id"))
        ELSE IF raw.action = None THEN Raise(MissingKey("action"))
        ELSE Return(ChaosStep(raw.id[1], raw.action[1], raw.command, raw.query,
                              IF supplied THEN Some(slo.value) ELSE None))

RECURSIVE steps_from_dict(_)
steps_from_dict(raws) ==
    IF raws = <<>> THEN Return(<<>>)
    ELSE LET first == step_from_dict(Head(raws))
         IN  IF first.raised THEN first
             ELSE LET rest == steps_from_dict(Tail(raws))
                  IN  IF rest.raised THEN rest
                      ELSE Return(<<first.value>> \o rest.value)

\* Mutant of from_dict: a definition without steps is accepted.
from_dict_allows_empty(data) ==
    LET steps == steps_from_dict(data.steps)
    IN  IF steps.raised THEN steps
        ELSE IF data.title = None THEN Raise(MissingKey("title"))
        ELSE Return(ChaosScenario(data.id, steps.value))

from_dict(data) ==
    LET steps == steps_from_dict(data.steps)
    IN  IF steps.raised THEN steps
        ELSE IF steps.value = <<>> THEN Raise(NoSteps(data.id))
        ELSE IF data.title = None THEN Raise(MissingKey("title"))
        ELSE Return(ChaosScenario(data.id, steps.value))

\* load_scenarios: the files in glob order, a later definition of an id
\* replacing an earlier one; the first definition that fails ends the loading.
RECURSIVE load_from(_, _)
load_from(defs, loaded) ==
    IF defs = <<>> THEN Return(loaded)
    ELSE LET scenario == from_dict(Head(defs))
         IN  IF scenario.raised THEN scenario
             ELSE load_from(Tail(defs),
                            (scenario.value.id :> scenario.value) @@ loaded)

load_scenarios(defs) == load_from(defs, <<>>)

\* --------------------------------------------------- the outside world
\* What subprocess.run observes of the child process.
Processes == {[returncode |-> c, stdout |-> "out", stderr |-> "err"] : c \in {0, 1}}
\* What urlopen + json.loads observe: a transport/parse failure, or a JSON
\* object whose "value" is missing/null or a number.
Responses ==
    {[ok |-> FALSE, value |-> None]} \cup
    {[ok |-> TRUE, value |-> v] : v \in {None} \cup {Some(x) : x \in Values}}

\* Mutant of fetch_value: a failed query is answered with None.
fetch_value_swallows(endpoint, query, response) ==
    IF ~endpoint THEN Return(None)
    ELSE IF ~response.ok THEN Return(None)
    ELSE Return(response.value)

\* Mutant of fetch_value: a client without an endpoint fails the query.
fetch_value_requires_endpoint(endpoint, query, response) ==
    IF ~endpoint THEN Raise(URLError)
    ELSE IF ~response.ok THEN Raise(URLError)
    ELSE Return(response.value)

\* ----------------------------------------------------------- MetricClient
fetch_value(endpoint, query, response) ==
    IF ~endpoint THEN Return(None)
    ELSE IF ~response.ok THEN Raise(URLError)
    ELSE Return(response.value)

\* Mutant of shell_step: a command that exits non-zero gives a result with
\* status failed, and no exception.
shell_step_reports_failure(step, dry_run, proc) ==
    LET detail == [status |-> "success", observation |-> None,
                   command |-> step.command[1]]
    IN  IF dry_run
        THEN Return(("output" :> "dry-run not executed") @@
                    [detail EXCEPT !.status = "skipped"])
        ELSE Spawning(
               Return([stdout |-> proc.stdout, stderr |-> proc.stderr] @@
                      [detail EXCEPT !.status =
                          IF proc.returncode # 0 THEN "failed" ELSE "success"]))

\* ------------------------------------------------- ChaosRunner._execute_step
\* Mutant of shell_step: the command is run whatever dry_run says.
shell_step_always_runs(step, dry_run, proc) ==
    LET detail == [status |-> "success", observation |-> None,
                   command |-> step.command[1]]
    IN  Spawning(
           IF proc.returncode # 0
           THEN Raise(CalledProcessError(step.command[1], proc))
           ELSE Return([stdout |-> proc.stdout, stderr |-> proc.stderr] @@ detail))

\* Mutant of shell_step: a command that exits non-zero is run a second time.
shell_step_retries(step, dry_run, proc) ==
    LET detail == [status |-> "success", observation |-> None,
                   command |-> step.command[1]]
    IN  IF dry_run
        THEN Return(("output" :> "dry-run not executed") @@
                    [detail EXCEPT !.status = "skipped"])
        ELSE IF proc.returncode # 0
        THEN [Raise(CalledProcessError(step.command[1], proc)) EXCEPT !.spawned = 2]
        ELSE Spawning(Return([stdout |-> proc.stdout, stderr |-> proc.stderr]
                             @@ detail))

shell_step(step, dry_run, proc) ==
    LET detail == [status |-> "success", observation |-> None,
                   command |-> step.command[1]]
    IN  IF dry_run
        THEN Return(("output" :> "dry-run not executed") @@
                    [detail EXCEPT !.status = "skipped"])
        ELSE Spawning(
               IF proc.returncode # 0
               THEN Raise(CalledProcessError(step.command[1], proc))
               ELSE Return([stdout |-> proc.stdout, stderr |-> proc.stderr] @@ detail))

\* Mutant of metric_step: the value is tested for truth, so zero counts as no
\* value.
metric_step_zero_is_missing(step, endpoint, response) ==
    LET fetched == fetch_value(endpoint, step.query[1], response)
        detail == [status |-> "success", observation |-> None,
                   metric_query |-> step.query[1], metric_value |-> fetched.value]
    IN  IF fetched.raised THEN fetched
        ELSE IF fetched.value = None \/ fetched.value = Some(0)
        THEN Return([detail EXCEPT !.status = "skipped"])
        ELSE Return(detail)

\* Mutant of metric_step: the status stays skipped when the query gave a value.
metric_step_always_skipped(step, endpoint, response) ==
    LET fetched == fetch_value(endpoint, step.query[1], response)
        detail == [status |-> "skipped", observation |-> None,
                   metric_query |-> step.query[1], metric_value |-> fetched.value]
    IN  IF fetched.raised THEN fetched ELSE Return(detail)

metric_step(step, endpoint, response) ==
    LET fetched == fetch_value(endpoint, step.query[1], response)
        detail == [status |-> "success", observation |-> None,
                   metric_query |-> step.query[1], metric_value |-> fetched.value]
    IN  IF fetched.raised THEN fetched
        ELSE IF fetched.value = None
        THEN Return([detail EXCEPT !.status = "skipped"])
        ELSE Return(detail)

\* Mutant of _execute_step: a dry run does not query the metric of a
\* check-metric step and reports the step as skipped.
_execute_step_dry_skips_metric(step, dry_run, endpoint, proc, response) ==
    IF step.action = "shell"
    THEN IF Falsy(step.command) THEN Raise(ValueError(step, "missing command"))
         ELSE shell_step(step, dry_run, proc)
    ELSE IF step.action = "check-metric"
    THEN IF Falsy(step.query) THEN Raise(ValueError(step, "missing query"))
         ELSE IF dry_run
         THEN Return([status |-> "skipped", observation |-> None,
                      metric_query |-> step.query[1], metric_value |-> None])
         ELSE metric_step(step, endpoint, response)
    ELSE Raise(ValueError(step, "unknown action"))

\* Mutant of _execute_step: a dry run skips a step without looking at its
\* command or query.
_execute_step_lenient_dry_run(step, dry_run, endpoint, proc, response) ==
    IF step.action \in {"shell", "check-metric"} /\ dry_run
          /\ (IF step.action = "shell" THEN Falsy(step.command) ELSE Falsy(step.query))
    THEN Return([status |-> "skipped", observation |-> None])
    ELSE IF step.action = "shell"
    THEN IF Falsy(step.command) THEN Raise(ValueError(step, "missing command"))
         ELSE shell_step(step, dry_run, proc)
    ELSE IF step.action = "check-metric"
    THEN IF Falsy(step.query) THEN Raise(ValueError(step, "missing query"))
         ELSE metric_step(step, endpoint, response)
    ELSE Raise(ValueError(step, "unknown action"))

_execute_step(step, dry_run, endpoint, proc, response) ==
    IF step.action = "shell"
    THEN IF Falsy(step.command) THEN Raise(ValueError(step, "missing command"))
         ELSE shell_step(step, dry_run, proc)
    ELSE IF step.action = "check-metric"
    THEN IF Falsy(step.query) THEN Raise(ValueError(step, "missing query"))
         ELSE metric_step(step, endpoint, response)
    ELSE Raise(ValueError(step, "unknown action"))

\* --------------------------------------------------- ChaosRunner._assert_slo
dict_get(d, key) == IF key \in DOMAIN d THEN d[key] ELSE None

\* Mutant of slo_passed: the comparisons are strict.
slo_passed_strict(comparison, value, threshold) ==
    IF comparison = "<=" THEN value < threshold ELSE value > threshold

slo_passed(comparison, value, threshold) ==
    IF comparison = "<=" THEN value <= threshold ELSE value >= threshold

\* Mutant of _assert_slo: a step without an SLO gets a report that says so.
_assert_slo_reports_absence(step, res) ==
    IF step.expected_slo = None THEN Return([slo_status |-> "pending"])
    ELSE LET slo == step.expected_slo[1]
             report == [slo_name |-> slo.name, slo_threshold |-> slo.threshold,
                        slo_comparison |-> slo.comparison]
             value == dict_get(res, "metric_value")
         IN  IF value = None
             THEN Return(("slo_status" :> "pending") @@ report)
             ELSE IF ~slo_passed(slo.comparison, value[1], slo.threshold)
             THEN Raise(AssertionError(step, value[1]))
             ELSE Return([slo_status |-> "met", slo_value |-> value[1]] @@ report)

\* Mutant of _assert_slo: a missing metric value counts as a violation.
_assert_slo_needs_value(step, res) ==
    IF step.expected_slo = None THEN Return(<<>>)
    ELSE LET slo == step.expected_slo[1]
             report == [slo_name |-> slo.name, slo_threshold |-> slo.threshold,
                        slo_comparison |-> slo.comparison]
             value == dict_get(res, "metric_value")
         IN  IF value = None
             THEN Raise(AssertionError(step, 0))
             ELSE IF ~slo_passed(slo.comparison, value[1], slo.threshold)
             THEN Raise(AssertionError(step, value[1]))
             ELSE Return([slo_status |-> "met", slo_value |-> value[1]] @@ report)

\* Mutant of _assert_slo: a violation is reported, not raised.
_assert_slo_soft(step, res) ==
    IF step.expected_slo = None THEN Return(<<>>)
    ELSE LET slo == step.expected_slo[1]
             report == [slo_name |-> slo.name, slo_threshold |-> slo.threshold,
                        slo_comparison |-> slo.comparison]
             value == dict_get(res, "metric_value")
         IN  IF value = None
             THEN Return(("slo_status" :> "pending") @@ report)
             ELSE IF ~slo_passed(slo.comparison, value[1], slo.threshold)
             THEN Return([slo_status |-> "violated", slo_value |-> value[1]] @@ report)
             ELSE Return([slo_status |-> "met", slo_value |-> value[1]] @@ report)

_assert_slo(step, res) ==
    IF step.expected_slo = None THEN Return(<<>>)
    ELSE LET slo == step.expected_slo[1]
             report == [slo_name |-> slo.name, slo_threshold |-> slo.threshold,
                        slo_comparison |-> slo.comparison]
             value == dict_get(res, "metric_value")
         IN  IF value = None
             THEN Return(("slo_status" :> "pending") @@ report)
             ELSE IF ~slo_passed(slo.comparison, value[1], slo.threshold)
             THEN Raise(AssertionError(step, value[1]))
             ELSE Return([slo_status |-> "met", slo_value |-> value[1]] @@ report)

\* ------------------------------------------------------- ChaosRunRecorder
strftime(t) == <<"T" \o ToString(t) \o "Z">>

\* str.replace(" ", "_")
RECURSIVE replace_spaces(_)
replace_spaces(str) ==
    IF str = <<>> THEN <<>>
    ELSE <<IF Head(str) = " " THEN "_" ELSE Head(str)>> \o replace_spaces(Tail(str))

file_name(timestamp, scenario_id, note) ==
    LET safe_note == IF note = None \/ note[1] = <<>> THEN <<>>
                     ELSE replace_spaces(note[1])
        suffix == IF safe_note # <<>> THEN <<"_">> \o safe_note ELSE <<>>
    IN  timestamp \o <<"_">> \o scenario_id \o suffix \o <<".json">>

NoRecorder == [created |-> FALSE]

ChaosRunRecorder(scenario, note, dry_run, clock) ==
    [created |-> TRUE,
     file_path |-> file_name(strftime(clock), scenario.id, note),
     payload |-> [scenario_id |-> scenario.id, scenario_title |-> scenario.title,
                  started_at |-> strftime(clock), note |-> note,
                  dry_run |-> dry_run, steps |-> <<>>],
     finalized |-> FALSE]

\* Mutant of append_step: a sealed recorder takes no more entries.
append_step_rejects_sealed(rec, step, status, detail) ==
    IF rec.finalized THEN rec
    ELSE [rec EXCEPT !.payload.steps =
             Append(@, [step_id |-> step.id, action |-> step.action,
                        status |-> status, detail |-> detail])]

\* Mutant of append_step: a step whose id already has an entry is not added.
append_step_dedup(rec, step, status, detail) ==
    IF \E i \in 1..Len(rec.payload.steps) : rec.payload.steps[i].step_id = step.id
    THEN rec
    ELSE [rec EXCEPT !.payload.steps =
             Append(@, [step_id |-> step.id, action |-> step.action,
                        status |-> status, detail |-> detail])]

\* Mutant of append_step: the entry is inserted at the front of the list.
append_step_front(rec, step, status, detail) ==
    [rec EXCEPT !.payload.steps =
        <<[step_id |-> step.id, action |-> step.action,
           status |-> status, detail |-> detail]>> \o @]

append_step(rec, step, status, detail) ==
    [rec EXCEPT !.payload.steps =
        Append(@, [step_id |-> step.id, action |-> step.action,
                   status |-> status, detail |-> detail])]

\* What file_path.open("w") followed by json.dump can do to the file system.
WriteOutcomes == {"written", "open fails", "dump fails"}
Truncated == [truncated |-> TRUE]

write_file(fs, path, content) ==
    [p \in DOMAIN fs \cup {path} |-> IF p = path THEN content ELSE fs[p]]

\* Mutant of finalize: the recorder is marked sealed before the file is opened.
finalize_marks_first(rec, fs, w) ==
    IF rec.finalized THEN [rec |-> rec, files |-> fs, raised |-> FALSE]
    ELSE IF w = "written"
    THEN [rec |-> [rec EXCEPT !.finalized = TRUE],
          files |-> write_file(fs, rec.file_path, rec.payload), raised |-> FALSE]
    ELSE IF w = "dump fails"
    THEN [rec |-> [rec EXCEPT !.finalized = TRUE],
          files |-> write_file(fs, rec.file_path, Truncated), raised |-> TRUE]
    ELSE [rec |-> [rec EXCEPT !.finalized = TRUE], files |-> fs, raised |-> TRUE]

\* Mutant of finalize: no early return when the recorder is already sealed.
finalize_unguarded(rec, fs, w) ==
    IF w = "written"
    THEN [rec |-> [rec EXCEPT !.finalized = TRUE],
          files |-> write_file(fs, rec.file_path, rec.payload), raised |-> FALSE]
    ELSE IF w = "dump fails"
    THEN [rec |-> rec, files |-> write_file(fs, rec.file_path, Truncated),
          raised |-> TRUE]
    ELSE [rec |-> rec, files |-> fs, raised |-> TRUE]

\* finalize: the recorder and the files after the call, and whether it raised.
finalize(rec, fs, w) ==
    IF rec.finalized THEN [rec |-> rec, files |-> fs, raised |-> FALSE]
    ELSE IF w = "written"
    THEN [rec |-> [rec EXCEPT !.finalized = TRUE],
          files |-> write_file(fs, rec.file_path, rec.payload), raised |-> FALSE]
    ELSE IF w = "dump fails"
    THEN [rec |-> rec, files |-> write_file(fs, rec.file_path, Truncated),
          raised |-> TRUE]
    ELSE [rec |-> rec, files |-> fs, raised |-> TRUE]

\* Mutant of set_failed: attaching a failure reopens the recorder.
set_failed_reopens(rec, error) ==
    [rec EXCEPT !.payload = ("failed" :> error) @@ @, !.finalized = FALSE]

set_failed(rec, error) ==
    [rec EXCEPT !.payload = ("failed" :> error) @@ @]

\* Mutant of abort: the failure is noted in memory and never written.
abort_unsealed(rec, fs, error, w) ==
    [rec |-> set_failed(rec, error), files |-> fs, raised |-> FALSE]

\* Mutant of abort: the record is written before the failure is attached.
abort_seals_first(rec, fs, error, w) ==
    [finalize(rec, fs, w) EXCEPT !.rec = set_failed(@, error)]

abort(rec, fs, error, w) == finalize(set_failed(rec, error), fs, w)

\* ------------------------------------------------------------------ replay
\* The text '无' that replay prints in place of a falsy note or failure.
DefaultText == <<"w">>

\* payload.get('note') or '无'
note_or_default(payload) ==
    IF payload.note = None \/ payload.note[1] = <<>> THEN DefaultText
    ELSE payload.note[1]

\* payload.get('failed') or '无'
failed_or_default(payload) ==
    IF "failed" \in DOMAIN payload THEN payload.failed
    ELSE [text |-> DefaultText]

\* The lines printed for one entry of payload['steps']: the head line, then
\* one line for every key of detail but "status".
replay_step(entry) ==
    [step_id |-> entry.step_id, action |-> entry.action, status |-> entry.status,
     detail |-> [key \in DOMAIN entry.detail \ {"status"} |-> entry.detail[key]]]

\* What replay prints for a loaded payload, line by line.
replay(payload) ==
    [scenario |-> <<payload.scenario_id, payload.scenario_title>>,
     started_at |-> payload.started_at,
     dry_run |-> payload.dry_run,
     note |-> note_or_default(payload),
     failed |-> failed_or_default(payload),
     steps |-> [i \in 1..Len(payload.steps) |-> replay_step(payload.steps[i])]]

\* ------------------------------------------------------------- scenarios
ScenarioA == <<"a">>
ScenarioB == <<"b">>
Notes == {None, Some(<<"n">>)}

\* The SLOs of the scenarios that are run: both directions around one
\* threshold, which the metric values 0..MaxValue fall below, on and above.
RunSLOs == {None} \cup
    {Some(SLOExpectation("latency_p95", c, MaxThreshold)) : c \in Comparisons}

StepPool ==
    {ChaosStep("inject", "shell", c, None, slo) :
        c \in {None, Some("kill -9 node")}, slo \in RunSLOs}
    \cup
    {ChaosStep("verify", "check-metric", None, q, slo) :
        q \in {None, Some("q1")}, slo \in RunSLOs}
    \cup
    {ChaosStep("call", "http", None, None, None)}

\* The steps of the scenarios that run concurrently.
ConcStepPool ==
    {ChaosStep("inject", "shell", Some("kill -9 node"), None, None),
     ChaosStep("verify", "check-metric", None, Some("q1"),
               Some(SLOExpectation("latency_p95", "<=", MaxThreshold)))}

StepSeqs(pool, n) == UNION {[1..k -> pool] : k \in 1..n}

\* ---------------------------------------------------------------- actions
NoInvocation == [started |-> FALSE]
NoException == [type |-> "none"]
NoReplay == [done |-> FALSE]
Call(op, i) == [op |-> op, step |-> i]

Scenario(r) == scenarios[inv[r].scenario_id]
Step(r) == Scenario(r).steps[idx[r]]

\* Mutant of show: an unknown id gives some scenario of the catalog.
show_any(catalog, scenario_id) ==
    IF scenario_id \notin DOMAIN catalog /\ catalog = <<>>
    THEN Raise(KeyError(scenario_id))
    ELSE IF scenario_id \notin DOMAIN catalog
    THEN Return(catalog[CHOOSE id \in DOMAIN catalog : TRUE])
    ELSE Return(catalog[scenario_id])

\* ChaosRunner.show
show(catalog, scenario_id) ==
    IF scenario_id \notin DOMAIN catalog THEN Raise(KeyError(scenario_id))
    ELSE Return(catalog[scenario_id])

\* The order of str on the characters of scenario ids.
ord(char) == IF char = "a" THEN 97 ELSE 98

\* s < t for two str, as sorted compares its keys.
RECURSIVE str_less(_, _)
str_less(s, t) ==
    IF t = <<>> THEN FALSE
    ELSE IF s = <<>> THEN TRUE
    ELSE IF Head(s) # Head(t) THEN ord(Head(s)) < ord(Head(t))
    ELSE str_less(Tail(s), Tail(t))

\* sorted(keys)
RECURSIVE sorted(_)
sorted(keys) ==
    IF keys = {} THEN <<>>
    ELSE LET least == CHOOSE k \in keys : \A o \in keys \ {k} : str_less(k, o)
         IN  <<least>> \o sorted(keys \ {least})

\* Mutant of list_scenarios: the keys are taken in descending order.
list_scenarios_unsorted(catalog) ==
    LET keys == sorted(DOMAIN catalog)
    IN  [i \in 1..Len(keys) |-> catalog[keys[Len(keys) + 1 - i]]]

\* ChaosRunner.list_scenarios
list_scenarios(catalog) ==
    LET keys == sorted(DOMAIN catalog)
    IN  [i \in 1..Len(keys) |-> catalog[keys[i]]]

\* ChaosRunner.run up to the for loop: show() and the recorder's construction.
RunStart(r, scenario_id, dry_run, note, endpoint) ==
    /\ pc[r] = "idle"
    /\ inv' = [inv EXCEPT ![r] = [started |-> TRUE, scenario_id |-> scenario_id,
                                  dry_run |-> dry_run, note |-> note,
                                  endpoint |-> endpoint]]
    /\ LET found == show(scenarios, scenario_id)
       IN  IF found.raised
       THEN /\ pc' = [pc EXCEPT ![r] = "raised"]
            /\ exc' = [exc EXCEPT ![r] = found.error]
            /\ UNCHANGED <<recorder, idx>>
       ELSE /\ recorder' = [recorder EXCEPT ![r] =
                   ChaosRunRecorder(found.value, note, dry_run, now)]
            /\ idx' = [idx EXCEPT ![r] = 1]
            /\ pc' = [pc EXCEPT ![r] = "execute"]
            /\ UNCHANGED exc
    /\ UNCHANGED <<definitions, replayed, ret, scenarios, now, files, result, spawned, calls>>

\* Mutant of ExecuteStep: a step that returned is used up, its command and its
\* query are taken out of the scenario.
ExecuteStepConsumes(r) ==
    /\ pc[r] = "execute"
    /\ \E proc \in Processes, response \in Responses :
         LET out == _execute_step(Step(r), inv[r].dry_run, inv[r].endpoint,
                                  proc, response)
         IN  /\ spawned' = [spawned EXCEPT ![r] = @ + out.spawned]
             /\ IF out.raised
                THEN /\ exc' = [exc EXCEPT ![r] = out.error]
                     /\ pc' = [pc EXCEPT ![r] = "except"]
                     /\ UNCHANGED <<result, scenarios>>
                ELSE /\ result' = [result EXCEPT ![r] = out.value]
                     /\ pc' = [pc EXCEPT ![r] = "assert"]
                     /\ scenarios' =
                          [scenarios EXCEPT ![inv[r].scenario_id].steps[idx[r]] =
                              [@ EXCEPT !.command = None, !.query = None]]
                     /\ UNCHANGED exc
    /\ calls' = [calls EXCEPT ![r] = Append(@, Call("execute", idx[r]))]
    /\ UNCHANGED <<definitions, replayed, ret, now, files, inv, recorder, idx>>

\* Mutant of ExecuteStep: when a step that is not the last has been executed,
\* the next one is started at once, its evaluation and append left out.
ExecuteStepAhead(r) ==
    /\ pc[r] = "execute"
    /\ \E proc \in Processes, response \in Responses :
         LET out == _execute_step(Step(r), inv[r].dry_run, inv[r].endpoint,
                                  proc, response)
         IN  /\ spawned' = [spawned EXCEPT ![r] = @ + out.spawned]
             /\ IF out.raised
                THEN /\ exc' = [exc EXCEPT ![r] = out.error]
                     /\ pc' = [pc EXCEPT ![r] = "except"]
                     /\ UNCHANGED <<result, idx>>
                ELSE IF idx[r] < Len(Scenario(r).steps)
                THEN /\ idx' = [idx EXCEPT ![r] = @ + 1]
                     /\ UNCHANGED <<result, pc, exc>>
                ELSE /\ result' = [result EXCEPT ![r] = out.value]
                     /\ pc' = [pc EXCEPT ![r] = "assert"]
                     /\ UNCHANGED <<exc, idx>>
    /\ calls' = [calls EXCEPT ![r] = Append(@, Call("execute", idx[r]))]
    /\ UNCHANGED <<definitions, replayed, ret, scenarios, now, files, inv, recorder>>

\* result = self._execute_step(step, dry_run=dry_run)
ExecuteStep(r) ==
    /\ pc[r] = "execute"
    /\ \E proc \in Processes, response \in Responses :
         LET out == _execute_step(Step(r), inv[r].dry_run, inv[r].endpoint,
                                  proc, response)
         IN  /\ spawned' = [spawned EXCEPT ![r] = @ + out.spawned]
             /\ IF out.raised
                THEN /\ exc' = [exc EXCEPT ![r] = out.error]
                     /\ pc' = [pc EXCEPT ![r] = "except"]
                     /\ UNCHANGED result
                ELSE /\ result' = [result EXCEPT ![r] = out.value]
                     /\ pc' = [pc EXCEPT ![r] = "assert"]
                     /\ UNCHANGED exc
    /\ calls' = [calls EXCEPT ![r] = Append(@, Call("execute", idx[r]))]
    /\ UNCHANGED <<definitions, replayed, ret, scenarios, now, files, inv, recorder, idx>>

\* Mutant of EvaluateStep: the record is written to its file after every
\* append.
EvaluateStepCheckpoints(r) ==
    /\ pc[r] = "assert"
    /\ LET out == _assert_slo(Step(r), result[r])
       IN  IF out.raised
           THEN /\ exc' = [exc EXCEPT ![r] = out.error]
                /\ pc' = [pc EXCEPT ![r] = "except"]
                /\ calls' = [calls EXCEPT ![r] = Append(@, Call("assert", idx[r]))]
                /\ UNCHANGED <<recorder, idx, files>>
           ELSE /\ recorder' = [recorder EXCEPT ![r] =
                       append_step(@, Step(r), result[r].status,
                                   out.value @@ result[r])]
                /\ files' = write_file(files, recorder[r].file_path,
                                       recorder'[r].payload)
                /\ calls' = [calls EXCEPT ![r] =
                       @ \o <<Call("assert", idx[r]), Call("append", idx[r])>>]
                /\ idx' = [idx EXCEPT ![r] = @ + 1]
                /\ pc' = [pc EXCEPT ![r] =
                       IF idx[r] = Len(Scenario(r).steps) THEN "finalize"
                       ELSE "execute"]
                /\ UNCHANGED exc
    /\ result' = [result EXCEPT ![r] = <<>>]
    /\ UNCHANGED <<definitions, replayed, ret, scenarios, now, inv, spawned>>

\* Mutant of EvaluateStep: the runs share one step list, an entry goes to
\* every recorder there is.
EvaluateStepShared(r) ==
    /\ pc[r] = "assert"
    /\ LET out == _assert_slo(Step(r), result[r])
       IN  IF out.raised
           THEN /\ exc' = [exc EXCEPT ![r] = out.error]
                /\ pc' = [pc EXCEPT ![r] = "except"]
                /\ calls' = [calls EXCEPT ![r] = Append(@, Call("assert", idx[r]))]
                /\ UNCHANGED <<recorder, idx>>
           ELSE /\ recorder' = [q \in Runs |->
                       IF recorder[q].created
                       THEN append_step(recorder[q], Step(r), result[r].status,
                                        out.value @@ result[r])
                       ELSE recorder[q]]
                /\ calls' = [calls EXCEPT ![r] =
                       @ \o <<Call("assert", idx[r]), Call("append", idx[r])>>]
                /\ idx' = [idx EXCEPT ![r] = @ + 1]
                /\ pc' = [pc EXCEPT ![r] =
                       IF idx[r] = Len(Scenario(r).steps) THEN "finalize"
                       ELSE "execute"]
                /\ UNCHANGED exc
    /\ result' = [result EXCEPT ![r] = <<>>]
    /\ UNCHANGED <<definitions, replayed, ret, scenarios, now, files, inv, spawned>>

\* slo_report = self._assert_slo(step, result); recorder.append_step(...)
EvaluateStep(r) ==
    /\ pc[r] = "assert"
    /\ LET out == _assert_slo(Step(r), result[r])
       IN  IF out.raised
           THEN /\ exc' = [exc EXCEPT ![r] = out.error]
                /\ pc' = [pc EXCEPT ![r] = "except"]
                /\ calls' = [calls EXCEPT ![r] = Append(@, Call("assert", idx[r]))]
                /\ UNCHANGED <<recorder, idx>>
           ELSE /\ recorder' = [recorder EXCEPT ![r] =
                       append_step(@, Step(r), result[r].status,
                                   out.value @@ result[r])]
                /\ calls' = [calls EXCEPT ![r] =
                       @ \o <<Call("assert", idx[r]), Call("append", idx[r])>>]
                /\ idx' = [idx EXCEPT ![r] = @ + 1]
                /\ pc' = [pc EXCEPT ![r] =
                       IF idx[r] = Len(Scenario(r).steps) THEN "finalize"
                       ELSE "execute"]
                /\ UNCHANGED exc
    /\ result' = [result EXCEPT ![r] = <<>>]
    /\ UNCHANGED <<definitions, replayed, ret, scenarios, now, files, inv, spawned>>

\* recorder.finalize(); return recorder.file_path
RunFinalize(r) ==
    /\ pc[r] = "finalize"
    /\ \E w \in WriteOutcomes :
         LET f == finalize(recorder[r], files, w)
         IN  /\ recorder' = [recorder EXCEPT ![r] = f.rec]
             /\ files' = f.files
             /\ IF f.raised
                THEN /\ exc' = [exc EXCEPT ![r] = OSError(recorder[r].file_path)]
                     /\ pc' = [pc EXCEPT ![r] = "except"]
                     /\ UNCHANGED ret
                ELSE /\ pc' = [pc EXCEPT ![r] = "returned"]
                     /\ ret' = [ret EXCEPT ![r] = Some(recorder[r].file_path)]
                     /\ UNCHANGED exc
    /\ calls' = [calls EXCEPT ![r] = Append(@, Call("finalize", 0))]
    /\ UNCHANGED <<definitions, replayed, scenarios, now, inv, idx, result, spawned>>

\* Mutant of RunAbort: the handler re-raises without calling abort.
RunAbortReraisesOnly(r) ==
    /\ pc[r] = "except"
    /\ pc' = [pc EXCEPT ![r] = "raised"]
    /\ calls' = [calls EXCEPT ![r] = Append(@, Call("abort", 0))]
    /\ UNCHANGED <<definitions, replayed, ret, scenarios, now, files, inv,
                   recorder, idx, result, exc, spawned>>

\* Mutant of RunAbort: the handler records the failure and does not re-raise.
RunAbortSwallows(r) ==
    /\ pc[r] = "except"
    /\ \E w \in WriteOutcomes :
         LET f == abort(recorder[r], files, Str(exc[r]), w)
         IN  /\ recorder' = [recorder EXCEPT ![r] = f.rec]
             /\ files' = f.files
    /\ pc' = [pc EXCEPT ![r] = "returned"]
    /\ calls' = [calls EXCEPT ![r] = Append(@, Call("abort", 0))]
    /\ UNCHANGED <<definitions, replayed, ret, scenarios, now, inv, idx, result, exc, spawned>>

\* except Exception as exc: recorder.abort(str(exc)); raise
RunAbort(r) ==
    /\ pc[r] = "except"
    /\ \E w \in WriteOutcomes :
         LET f == abort(recorder[r], files, Str(exc[r]), w)
         IN  /\ recorder' = [recorder EXCEPT ![r] = f.rec]
             /\ files' = f.files
             /\ exc' = [exc EXCEPT ![r] =
                    IF f.raised THEN OSError(recorder[r].file_path) ELSE @]
    /\ pc' = [pc EXCEPT ![r] = "raised"]
    /\ calls' = [calls EXCEPT ![r] = Append(@, Call("abort", 0))]
    /\ UNCHANGED <<definitions, replayed, ret, scenarios, now, inv, idx, result, spawned>>

\* A second of wall-clock time passes.
Tick ==
    /\ now < MaxClock
    /\ now' = now + 1
    /\ UNCHANGED <<definitions, replayed, ret, scenarios, files, pc, inv, recorder, idx, result, exc,
                   spawned, calls>>

\* Mutant of Replay: the record is written back with its note normalised.
ReplayRewrites(r, p) ==
    /\ pc[r] \in {"idle", "returned", "raised"}
    /\ p \in DOMAIN files
    /\ files[p] # Truncated
    /\ replayed' = [replayed EXCEPT ![r] =
           [done |-> TRUE, raised |-> FALSE, payload |-> files[p],
            output |-> replay(files[p])]]
    /\ files' = [files EXCEPT ![p].note = Some(note_or_default(files[p]))]
    /\ UNCHANGED <<definitions, ret, scenarios, now, pc, inv, recorder, idx,
                   result, exc, spawned, calls>>

\* replay(record_path) in a process that is not in the middle of a run: a file
\* that is not whole JSON makes json.load raise before anything is printed.
Replay(r, p) ==
    /\ pc[r] \in {"idle", "returned", "raised"}
    /\ p \in DOMAIN files
    /\ replayed' = [replayed EXCEPT ![r] =
           IF files[p] = Truncated
           THEN [done |-> TRUE, raised |-> TRUE]
           ELSE [done |-> TRUE, raised |-> FALSE, payload |-> files[p],
                 output |-> replay(files[p])]]
    /\ UNCHANGED <<definitions, ret, scenarios, now, files, pc, inv, recorder,
                   idx, result, exc, spawned, calls>>

\* main for the list command: the scenarios as list_scenarios returns them.
ListScenarios(r) ==
    /\ pc[r] = "idle"
    /\ ret' = [ret EXCEPT ![r] = Some(list_scenarios(scenarios))]
    /\ pc' = [pc EXCEPT ![r] = "listed"]
    /\ UNCHANGED <<definitions, replayed, scenarios, now, files, inv, recorder,
                   idx, result, exc, spawned, calls>>

\* ------------------------------------------------ sequential specification
\* One runner whose catalog holds scenario "a"; run is invoked once, for a
\* scenario id that may or may not be in the catalog.
InitRuns(active) ==
    /\ now = 0
    /\ files = <<>>
    /\ pc = [r \in Runs |-> IF r \in active THEN "idle" ELSE "off"]
    /\ inv = [r \in Runs |-> NoInvocation]
    /\ recorder = [r \in Runs |-> NoRecorder]
    /\ idx = [r \in Runs |-> 0]
    /\ result = [r \in Runs |-> <<>>]
    /\ exc = [r \in Runs |-> NoException]
    /\ spawned = [r \in Runs |-> 0]
    /\ calls = [r \in Runs |-> <<>>]
    /\ ret = [r \in Runs |-> None]
    /\ definitions = <<>>
    /\ replayed = [r \in Runs |-> NoReplay]

Init ==
    /\ \E steps \in StepSeqs(StepPool, MaxSteps) :
         scenarios = [id \in {ScenarioA} |-> ChaosScenario(id, steps)]
    /\ InitRuns({"r1"})

Next ==
    \/ \E r \in Runs, id \in {ScenarioA, ScenarioB}, dry_run \in BOOLEAN,
          note \in Notes, endpoint \in BOOLEAN :
         RunStart(r, id, dry_run, note, endpoint)
    \/ \E r \in Runs : ExecuteStep(r)
    \/ \E r \in Runs : EvaluateStep(r)
    \/ \E r \in Runs : RunFinalize(r)
    \/ \E r \in Runs : RunAbort(r)

Spec == Init /\ [][Next]_vars

\* ------------------------------------------------ concurrent specification
\* Two invocations of run, each in a process of its own with its own runner
\* and recorder, over one catalog and one RUN_DIR; their steps interleave.
InitConc ==
    /\ \E sa \in StepSeqs(ConcStepPool, MaxConcSteps),
          sb \in StepSeqs(ConcStepPool, MaxConcSteps) :
         scenarios = [id \in {ScenarioA, ScenarioB} |->
                        ChaosScenario(id, IF id = ScenarioA THEN sa ELSE sb)]
    /\ InitRuns(Runs)

NextConc ==
    \/ \E r \in Runs, id \in {ScenarioA, ScenarioB}, note \in Notes :
         RunStart(r, id, FALSE, note, TRUE)
    \/ \E r \in Runs : ExecuteStep(r)
    \/ \E r \in Runs : EvaluateStep(r)
    \/ \E r \in Runs : RunFinalize(r)
    \/ \E r \in Runs : RunAbort(r)
    \/ Tick

SpecConc == InitConc /\ [][NextConc]_vars

\* -------------------------------------------------- recorder specification
\* A client other than run drives a ChaosRunRecorder through its public
\* methods, in any order: the class does not enforce the order of use its
\* docstring gives.
ClientErrors == {Str(URLError), Str(KeyError(ScenarioB))}

ClientCreate(r, scenario_id, dry_run, note) ==
    /\ pc[r] = "idle"
    /\ scenario_id \in DOMAIN scenarios
    /\ recorder' = [recorder EXCEPT ![r] =
           ChaosRunRecorder(scenarios[scenario_id], note, dry_run, now)]
    /\ pc' = [pc EXCEPT ![r] = "client"]
    /\ UNCHANGED <<definitions, replayed, ret, scenarios, now, files, inv, idx, result, exc, spawned, calls>>

ClientAppendStep(r, step, status) ==
    /\ pc[r] = "client"
    /\ Len(calls[r]) < MaxCalls
    /\ recorder' = [recorder EXCEPT ![r] =
           append_step(@, step, status, [status |-> status])]
    /\ calls' = [calls EXCEPT ![r] = Append(@, Call("append", 0))]
    /\ UNCHANGED <<definitions, replayed, ret, scenarios, now, files, pc, inv, idx, result, exc, spawned>>

ClientFinalize(r) ==
    /\ pc[r] = "client"
    /\ Len(calls[r]) < MaxCalls
    /\ \E w \in WriteOutcomes :
         LET f == finalize(recorder[r], files, w)
         IN  recorder' = [recorder EXCEPT ![r] = f.rec] /\ files' = f.files
    /\ calls' = [calls EXCEPT ![r] = Append(@, Call("finalize", 0))]
    /\ UNCHANGED <<definitions, replayed, ret, scenarios, now, pc, inv, idx, result, exc, spawned>>

ClientAbort(r, error) ==
    /\ pc[r] = "client"
    /\ Len(calls[r]) < MaxCalls
    /\ \E w \in WriteOutcomes :
         LET f == abort(recorder[r], files, error, w)
         IN  recorder' = [recorder EXCEPT ![r] = f.rec] /\ files' = f.files
    /\ calls' = [calls EXCEPT ![r] = Append(@, Call("abort", 0))]
    /\ UNCHANGED <<definitions, replayed, ret, scenarios, now, pc, inv, idx, result, exc, spawned>>

InitRec ==
    /\ \E steps \in StepSeqs(ConcStepPool, 1) :
         scenarios = [id \in {ScenarioA} |-> ChaosScenario(id, steps)]
    /\ InitRuns({"r1"})

NextRec ==
    \/ \E r \in Runs, dry_run \in BOOLEAN, note \in Notes :
         ClientCreate(r, ScenarioA, dry_run, note)
    \/ \E r \in Runs, step \in ConcStepPool :
         ClientAppendStep(r, step, "success")
    \/ \E r \in Runs : ClientFinalize(r)
    \/ \E r \in Runs, error \in ClientErrors : ClientAbort(r, error)

SpecRec == InitRec /\ [][NextRec]_vars

\* ------------------------------------------------ evaluator specification
\* _assert_slo on every pair of a step (no SLO, or either comparison with any
\* threshold) and a result that _execute_step can return for it: the run
\* starts where _execute_step has just returned for the only step.
SloStepPool ==
    {ChaosStep("inject", "shell", Some("kill -9 node"), None, slo) :
        slo \in {None} \cup {Some(e) : e \in AllSLOs}}
    \cup
    {ChaosStep("verify", "check-metric", None, Some("q1"), slo) :
        slo \in {None} \cup {Some(e) : e \in AllSLOs}}

InitSlo ==
    /\ \E step \in SloStepPool, dry_run \in BOOLEAN, endpoint \in BOOLEAN,
          proc \in Processes, response \in Responses :
         LET out == _execute_step(step, dry_run, endpoint, proc, response)
             scenario == ChaosScenario(ScenarioA, <<step>>)
         IN  /\ ~out.raised
             /\ scenarios = [id \in {ScenarioA} |-> scenario]
             /\ inv = [r \in Runs |->
                    IF r = "r1"
                    THEN [started |-> TRUE, scenario_id |-> ScenarioA,
                          dry_run |-> dry_run, note |-> None,
                          endpoint |-> endpoint]
                    ELSE NoInvocation]
             /\ recorder = [r \in Runs |->
                    IF r = "r1" THEN ChaosRunRecorder(scenario, None, dry_run, 0)
                    ELSE NoRecorder]
             /\ result = [r \in Runs |-> IF r = "r1" THEN out.value ELSE <<>>]
             /\ spawned = [r \in Runs |-> IF r = "r1" THEN out.spawned ELSE 0]
    /\ now = 0
    /\ files = <<>>
    /\ pc = [r \in Runs |-> IF r = "r1" THEN "assert" ELSE "off"]
    /\ idx = [r \in Runs |-> IF r = "r1" THEN 1 ELSE 0]
    /\ exc = [r \in Runs |-> NoException]
    /\ calls = [r \in Runs |-> IF r = "r1" THEN <<Call("execute", 1)>> ELSE <<>>]
    /\ ret = [r \in Runs |-> None]
    /\ definitions = <<>>
    /\ replayed = [r \in Runs |-> NoReplay]

NextSlo ==
    \/ \E r \in Runs : EvaluateStep(r)
    \/ \E r \in Runs : RunFinalize(r)
    \/ \E r \in Runs : RunAbort(r)

SpecSlo == InitSlo /\ [][NextSlo]_vars

\* ---------------------------------------------------- loading specification
\* main for the run command: load_scenarios on a SCENARIO_DIR with one
\* definition, then ChaosRunner.run for the id of that definition.
RawSLOs ==
    {None, Some(EmptyDict)} \cup
    {Some(RawSLO(n, c, t)) :
        n \in {None, Some("latency_p95")},
        c \in {None, Some("<="), Some(">="), Some("<")},
        t \in {None, Some(MaxThreshold)}}

RawStepPool ==
    {RawStep(Some("inject"), Some("shell"), c, None, None) :
        c \in {None, Some("kill -9 node")}}
    \cup
    {RawStep(Some("verify"), Some("check-metric"), None, Some("q1"), slo) :
        slo \in RawSLOs}
    \cup
    {RawStep(Some("verify"), Some("check-metric"), None, None, None),
     RawStep(Some("call"), Some("http"), None, None, None),
     RawStep(None, Some("shell"), Some("kill -9 node"), None, None),
     RawStep(Some("inject"), None, Some("kill -9 node"), None, None)}

RawStepSeqs(n) == UNION {[1..k -> RawStepPool] : k \in 0..n}

\* scenarios = load_scenarios(), as main does before it builds the runner.
LoadScenarios(r) ==
    /\ pc[r] = "load"
    /\ LET out == load_scenarios(definitions)
       IN  IF out.raised
           THEN /\ exc' = [exc EXCEPT ![r] = out.error]
                /\ pc' = [pc EXCEPT ![r] = "raised"]
                /\ UNCHANGED scenarios
           ELSE /\ scenarios' = out.value
                /\ pc' = [pc EXCEPT ![r] = "idle"]
                /\ UNCHANGED exc
    /\ UNCHANGED <<definitions, replayed, ret, now, files, inv, recorder, idx,
                   result, spawned, calls>>

InitLoad ==
    /\ \E title \in {None, Some(<<"t">> \o ScenarioA)},
          steps \in RawStepSeqs(MaxLoadSteps) :
         definitions = <<RawScenario(ScenarioA, title, steps)>>
    /\ scenarios = <<>>
    /\ now = 0
    /\ files = <<>>
    /\ pc = [r \in Runs |-> IF r = "r1" THEN "load" ELSE "off"]
    /\ inv = [r \in Runs |-> NoInvocation]
    /\ recorder = [r \in Runs |-> NoRecorder]
    /\ idx = [r \in Runs |-> 0]
    /\ result = [r \in Runs |-> <<>>]
    /\ exc = [r \in Runs |-> NoException]
    /\ spawned = [r \in Runs |-> 0]
    /\ calls = [r \in Runs |-> <<>>]
    /\ ret = [r \in Runs |-> None]
    /\ replayed = [r \in Runs |-> NoReplay]

NextLoad ==
    \/ \E r \in Runs : LoadScenarios(r)
    \/ \E r \in Runs, dry_run \in BOOLEAN, endpoint \in BOOLEAN :
         RunStart(r, ScenarioA, dry_run, None, endpoint)
    \/ \E r \in Runs : ExecuteStep(r)
    \/ \E r \in Runs : EvaluateStep(r)
    \/ \E r \in Runs : RunFinalize(r)
    \/ \E r \in Runs : RunAbort(r)

SpecLoad == InitLoad /\ [][NextLoad]_vars


\* ----------------------------------------------------- replay specification
\* Two processes over one RUN_DIR: each makes a dry run of the one scenario,
\* with no note, an empty note, the note '无' or another note, and each
\* replays the files of RUN_DIR any number of times, before and after its run
\* and while the other process is running.
ReplayNotes == Notes \cup {Some(<<>>), Some(DefaultText)}

InitReplay ==
    /\ \E steps \in StepSeqs(ConcStepPool, 1) :
         scenarios = [id \in {ScenarioA} |-> ChaosScenario(id, steps)]
    /\ InitRuns(Runs)

NextReplay ==
    \/ \E r \in Runs, note \in ReplayNotes : RunStart(r, ScenarioA, TRUE, note, FALSE)
    \/ \E r \in Runs : ExecuteStep(r)
    \/ \E r \in Runs : EvaluateStep(r)
    \/ \E r \in Runs : RunFinalize(r)
    \/ \E r \in Runs : RunAbort(r)
    \/ \E r \in Runs, p \in DOMAIN files : Replay(r, p)

SpecReplay == InitReplay /\ [][NextReplay]_vars


\* ------------------------------------------------ independence specification
\* The concurrent specification within one second and without notes: two
\* invocations of run over one catalog and one RUN_DIR, their steps interleaved.
NextPair ==
    \/ \E r \in Runs, id \in {ScenarioA, ScenarioB} :
         RunStart(r, id, FALSE, None, TRUE)
    \/ \E r \in Runs : ExecuteStep(r)
    \/ \E r \in Runs : EvaluateStep(r)
    \/ \E r \in Runs : RunFinalize(r)
    \/ \E r \in Runs : RunAbort(r)

SpecPair == InitConc /\ [][NextPair]_vars


\* ---------------------------------------------------- listing specification
\* main for the list command: load_scenarios on a SCENARIO_DIR of up to
\* MaxFiles definitions, in any glob order and with ids that may repeat, then
\* list_scenarios.
ScenarioAB == <<"a", "b">>

ListedDefinitions ==
    {RawScenario(id, Some(<<"t">> \o id),
                 <<RawStep(Some("inject"), Some("shell"), c, None, None)>>) :
        id \in {ScenarioA, ScenarioB, ScenarioAB},
        c \in {None, Some("kill -9 node")}}

InitList ==
    /\ definitions \in UNION {[1..k -> ListedDefinitions] : k \in 0..MaxFiles}
    /\ scenarios = <<>>
    /\ now = 0
    /\ files = <<>>
    /\ pc = [r \in Runs |-> IF r = "r1" THEN "load" ELSE "off"]
    /\ inv = [r \in Runs |-> NoInvocation]
    /\ recorder = [r \in Runs |-> NoRecorder]
    /\ idx = [r \in Runs |-> 0]
    /\ result = [r \in Runs |-> <<>>]
    /\ exc = [r \in Runs |-> NoException]
    /\ spawned = [r \in Runs |-> 0]
    /\ calls = [r \in Runs |-> <<>>]
    /\ ret = [r \in Runs |-> None]
    /\ replayed = [r \in Runs |-> NoReplay]

NextList ==
    \/ \E r \in Runs : LoadScenarios(r)
    \/ \E r \in Runs : ListScenarios(r)

SpecList == InitList /\ [][NextList]_vars


\* ------------------------------------------------ run to completion
\* The sequential specification with progress: run is straight-line code, so
\* once started it takes its next step whenever that step is possible; a step
\* that waits for a process or for the metric endpoint is taken because the
\* call is assumed to return or fail. Nothing obliges anyone to start a run.
Progress ==
    \A r \in Runs : /\ WF_vars(ExecuteStep(r))
                    /\ WF_vars(EvaluateStep(r))
                    /\ WF_vars(RunFinalize(r))
                    /\ WF_vars(RunAbort(r))

SpecLive == Init /\ [][Next]_vars /\ Progress


\* ---------------------------------------- misconfigured-step specification
\* The sequential specification over scenarios that mix steps run can
\* dispatch with steps it cannot: an action it does not know, and a command
\* or a query that is missing or the empty string.
CfgStepPool ==
    {ChaosStep("inject", "shell", c, None, None) :
        c \in {None, Some(""), Some("kill -9 node")}}
    \cup
    {ChaosStep("verify", "check-metric", None, q, None) :
        q \in {None, Some(""), Some("q1")}}
    \cup
    {ChaosStep("call", "http", None, None, None)}

InitCfg ==
    /\ \E steps \in StepSeqs(CfgStepPool, MaxSteps) :
         scenarios = [id \in {ScenarioA} |-> ChaosScenario(id, steps)]
    /\ InitRuns({"r1"})

SpecCfg == InitCfg /\ [][Next]_vars


\* ------------------------------------------------ file-name specification
\* Two recorders are constructed, at any second of the clock, for either
\* scenario and with a note that is absent, empty, a space or an underscore.
NameNotes == {None, Some(<<>>), Some(<<" ">>), Some(<<"_">>)}

InitName ==
    /\ scenarios = [id \in {ScenarioA, ScenarioB} |->
                      ChaosScenario(id, <<ChaosStep("inject", "shell",
                                                    Some("kill -9 node"), None, None)>>)]
    /\ InitRuns(Runs)

NextName ==
    \/ \E r \in Runs, id \in {ScenarioA, ScenarioB}, note \in NameNotes :
         ClientCreate(r, id, FALSE, note)
    \/ Tick

SpecName == InitName /\ [][NextName]_vars


\* ------------------------------------------------ run-after-run specification
\* run is called twice on runners over one catalog, the second call after the
\* first is over, each for either scenario and as a dry run or not. Scenario
\* "a" has any steps of the concurrent pool, scenario "b" one shell step.
InitSeq ==
    /\ \E sa \in StepSeqs(ConcStepPool, MaxConcSteps) :
         scenarios = [id \in {ScenarioA, ScenarioB} |->
                        ChaosScenario(id, IF id = ScenarioA THEN sa
                                          ELSE <<ChaosStep("inject", "shell",
                                                           Some("kill -9 node"),
                                                           None, None)>>)]
    /\ InitRuns(Runs)

RunAfter(r, scenario_id, dry_run) ==
    /\ \A q \in Runs \ {r} : pc[q] \in {"idle", "returned", "raised"}
    /\ RunStart(r, scenario_id, dry_run, None, TRUE)

NextSeq ==
    \/ \E r \in Runs, id \in {ScenarioA, ScenarioB}, dry_run \in BOOLEAN :
         RunAfter(r, id, dry_run)
    \/ \E r \in Runs : ExecuteStep(r)
    \/ \E r \in Runs : EvaluateStep(r)
    \/ \E r \in Runs : RunFinalize(r)
    \/ \E r \in Runs : RunAbort(r)

SpecSeq == InitSeq /\ [][NextSeq]_vars


\* ================================================================ claims
Entries(r) == recorder[r].payload.steps
Catalogued(r) == inv[r].started /\ inv[r].scenario_id \in DOMAIN scenarios
Path(r) == recorder[r].file_path
HasFailed(payload) == "failed" \in DOMAIN payload
StepOps == {"execute", "assert", "append"}

\* The calls of a run that completes n steps without an exception.
FullTrace(n) ==
    [i \in 1..(3 * n) |->
        Call(CASE i % 3 = 1 -> "execute" [] i % 3 = 2 -> "assert" [] OTHER -> "append",
             (i + 2) \div 3)]

\* The i-th record entry carries the id and the action of the i-th step.
EntriesMatch(entries, steps) ==
    /\ Len(entries) = Len(steps)
    /\ \A i \in 1..Len(steps) :
         entries[i].step_id = steps[i].id /\ entries[i].action = steps[i].action

\* C1: once _execute_step or _assert_slo raises for step k, run executes and
\* evaluates no later step and appends nothing more; its next and last act is
\* abort with str(exc), after which the failure is with the caller. run returns
\* normally only after the calls execute, assert, append of every step, in
\* order, and finalize.
C1_StopsAtFirstException ==
    /\ [][\A r \in Runs :
            /\ (pc[r] \in {"execute", "assert"} /\ pc'[r] = "except") =>
                 /\ idx'[r] = idx[r]
                 /\ recorder'[r] = recorder[r]
                 /\ exc'[r].type \in {"ValueError", "CalledProcessError",
                                      "URLError", "AssertionError"}
            /\ pc[r] = "except" =>
                 /\ pc'[r] \in {"except", "raised"}
                 /\ idx'[r] = idx[r]
                 /\ spawned'[r] = spawned[r]
                 /\ Entries(r)' = Entries(r)
                 /\ pc'[r] = "raised" =>
                      /\ calls'[r] = Append(calls[r], Call("abort", 0))
                      /\ recorder'[r].payload.failed = Str(exc[r])
                      /\ exc'[r] # NoException
            /\ pc[r] = "raised" => pc'[r] = "raised" /\ calls'[r] = calls[r]]_vars
    /\ [](\A r \in Runs :
            /\ pc[r] \in {"except", "raised"} =>
                 \A i \in 1..Len(calls[r]) :
                    calls[r][i].op \in StepOps => calls[r][i].step <= idx[r]
            /\ pc[r] = "returned" =>
                 calls[r] = Append(FullTrace(Len(Scenario(r).steps)),
                                   Call("finalize", 0)))

\* C1 witness: the first of two steps violated its SLO, the run was aborted
\* and the error is with the caller.
C1_Witness ==
    \E r \in Runs :
        /\ pc[r] = "raised"
        /\ exc[r].type = "AssertionError"
        /\ idx[r] = 1 /\ Len(Scenario(r).steps) > 1
        /\ calls[r] = <<Call("execute", 1), Call("assert", 1), Call("abort", 0)>>
        /\ recorder[r].payload.failed = exc[r]

\* C2: when the loop of run has gone through all N steps of the scenario, the
\* record holds exactly N entries, the i-th with the id and action of the i-th
\* step; finalize then writes exactly this record to the run's file, and
\* whichever call seals the recorder, the file it writes holds these entries.
C2_RecordsEveryStepInOrder ==
    /\ [](\A r \in Runs :
            (recorder[r].created /\ idx[r] = Len(Scenario(r).steps) + 1) =>
                EntriesMatch(Entries(r), Scenario(r).steps))
    /\ [][\A r \in Runs :
            /\ (pc[r] = "finalize" /\ pc'[r] = "returned") =>
                 /\ Path(r) \in DOMAIN files'
                 /\ files'[Path(r)] = recorder[r].payload
            /\ (/\ recorder[r].created /\ idx[r] = Len(Scenario(r).steps) + 1
                /\ ~recorder[r].finalized /\ recorder'[r].finalized) =>
                 EntriesMatch(files'[Path(r)].steps, Scenario(r).steps)]_vars

\* C2 witness: a run of a scenario of two different steps returned and its
\* file holds the two entries.
C2_Witness ==
    \E r \in Runs :
        /\ pc[r] = "returned"
        /\ Len(Scenario(r).steps) = 2
        /\ Scenario(r).steps[1].id # Scenario(r).steps[2].id
        /\ Path(r) \in DOMAIN files
        /\ Len(files[Path(r)].steps) = 2

C4_ViolationIsHardStop ==
    /\ [][\A r \in Runs :
            (/\ pc[r] = "assert" /\ pc'[r] # "assert"
             /\ Step(r).expected_slo # None
             /\ "metric_value" \in DOMAIN result[r]
             /\ result[r].metric_value # None
             /\ LET slo == Step(r).expected_slo[1]
                    v == result[r].metric_value[1]
                IN  \/ slo.comparison = "<=" /\ v > slo.threshold
                    \/ slo.comparison = ">=" /\ v < slo.threshold) =>
                /\ pc'[r] = "except"
                /\ exc'[r].type = "AssertionError"
                /\ recorder'[r] = recorder[r]]_vars
    /\ [][\A r \in Runs :
            (pc[r] = "except" /\ exc[r].type = "AssertionError"
                /\ pc'[r] = "raised") =>
                /\ recorder'[r].payload.failed = exc[r]
                /\ Len(Entries(r)') = idx[r] - 1
                /\ \A i \in 1..Len(calls'[r]) : calls'[r][i].step <= idx[r]
                /\ recorder'[r].finalized =>
                     /\ HasFailed(files'[Path(r)])
                     /\ files'[Path(r)].failed = Str(exc[r])
                     /\ Len(files'[Path(r)].steps) = idx[r] - 1]_vars

\* C4 witness: the metric of the last-but-one step exceeded its `<=` threshold;
\* the file has a failed field and no entry for that step or the next.
C4_Witness ==
    \E r \in Runs :
        /\ pc[r] = "raised"
        /\ exc[r].type = "AssertionError"
        /\ exc[r].comparison = "<=" /\ exc[r].value > exc[r].threshold
        /\ idx[r] = Len(Scenario(r).steps) - 1
        /\ recorder[r].finalized
        /\ HasFailed(files[Path(r)])
        /\ Len(files[Path(r)].steps) = idx[r] - 1

\* C5: a call of finalize, abort (or append_step) on a sealed recorder leaves
\* the recorder sealed and every file as it is; the call that seals a recorder
\* writes the recorder's payload to its file and touches no other file. So the
\* file holds what the first seal wrote, and a recorder has one completed write.
C5_SealingIsIdempotent ==
    [][\A r \in Runs :
         /\ (recorder[r].created /\ recorder[r].finalized
                /\ calls'[r] # calls[r]) =>
              /\ recorder'[r].finalized
              /\ files' = files
         /\ (recorder[r].created /\ ~recorder[r].finalized
                /\ recorder'[r].finalized) =>
              /\ files'[Path(r)] = recorder'[r].payload
              /\ \A p \in DOMAIN files \ {Path(r)} :
                   p \in DOMAIN files' /\ files'[p] = files[p]]_vars

\* C5 witness: abort sealed the recorder, two more finalize/abort calls
\* followed, the last an abort with another error, which is in the payload in
\* memory while the file still carries the first.
C5_Witness ==
    \E r \in Runs :
        /\ pc[r] = "client"
        /\ Len(calls[r]) = 3
        /\ calls[r][1].op = "abort"
        /\ calls[r][2].op = "finalize"
        /\ calls[r][3].op = "abort"
        /\ recorder[r].finalized
        /\ HasFailed(files[Path(r)])
        /\ files[Path(r)].failed # recorder[r].payload.failed

\* C6: two recorders never have the same file path.
C6_StorageKeysNeverCollide ==
    \A r1, r2 \in Runs :
        (r1 # r2 /\ recorder[r1].created /\ recorder[r2].created) =>
            Path(r1) # Path(r2)

\* C7: the content of a file that a recorder has sealed never changes.
C7_SealedArtifactNeverRewritten ==
    [][\A p \in DOMAIN files :
         (\E r \in Runs : /\ recorder[r].created /\ recorder[r].finalized
                          /\ Path(r) = p /\ files[p] = recorder[r].payload) =>
            (p \in DOMAIN files' /\ files'[p] = files[p])]_vars

C9_ComparisonDecidesSlo ==
    [][\A r \in Runs :
         (/\ pc[r] = "assert" /\ pc'[r] # "assert"
          /\ Step(r).expected_slo # None
          /\ "metric_value" \in DOMAIN result[r]
          /\ result[r].metric_value # None) =>
            LET slo == Step(r).expected_slo[1]
                v == result[r].metric_value[1]
                passes == \/ slo.comparison = "<=" /\ v <= slo.threshold
                          \/ slo.comparison = ">=" /\ v >= slo.threshold
            IN  /\ passes <=> pc'[r] # "except"
                /\ ~passes => exc'[r].type = "AssertionError"
                /\ passes =>
                     /\ Len(Entries(r)') = Len(Entries(r)) + 1
                     /\ Entries(r)'[Len(Entries(r)')].detail.slo_status = "met"
                     /\ Entries(r)'[Len(Entries(r)')].detail.slo_value = v]_vars

\* C9 witness: a metric value equal to the threshold of a `>=` SLO was
\* evaluated and recorded as met.
C9_Witness ==
    \E r \in Runs :
        /\ pc[r] = "finalize"
        /\ Len(Entries(r)) = 1
        /\ "slo_status" \in DOMAIN Entries(r)[1].detail
        /\ Entries(r)[1].detail.slo_status = "met"
        /\ Entries(r)[1].detail.slo_comparison = ">="
        /\ Entries(r)[1].detail.slo_value = Entries(r)[1].detail.slo_threshold

C11_MetricUnavailabilityNotFatal ==
    [][\A r \in Runs :
         /\ (/\ pc[r] = "execute" /\ pc'[r] # "execute"
             /\ Step(r).action = "check-metric"
             /\ ~Falsy(Step(r).query)) =>
               /\ ~inv[r].endpoint =>
                    pc'[r] = "assert" /\ result'[r].metric_value = None
               /\ pc'[r] = "except" => exc'[r].type = "URLError"
               /\ pc'[r] = "assert" =>
                    /\ result'[r].metric_value = None =>
                         result'[r].status = "skipped"
                    /\ exc'[r] = exc[r]
                    /\ spawned'[r] = spawned[r]
         /\ (/\ pc[r] = "assert" /\ pc'[r] # "assert"
             /\ Step(r).action = "check-metric"
             /\ result[r].metric_value = None) =>
               /\ pc'[r] = IF idx[r] < Len(Scenario(r).steps) THEN "execute"
                           ELSE "finalize"
               /\ exc'[r] = exc[r]
               /\ Len(Entries(r)') = Len(Entries(r)) + 1
               /\ LET e == Entries(r)'[Len(Entries(r)')]
                  IN  /\ e.status = "skipped"
                      /\ e.detail.metric_value = None]_vars

\* C11 witness: with an endpoint configured the query of the first step came
\* back without a value, the step is recorded as skipped, the second step was
\* executed after it and the run returned.
C11_Witness ==
    \E r \in Runs :
        /\ pc[r] = "returned"
        /\ inv[r].endpoint
        /\ Len(Entries(r)) = 2
        /\ Entries(r)[1].action = "check-metric"
        /\ Entries(r)[1].status = "skipped"
        /\ Entries(r)[1].detail.metric_value = None
        /\ ~HasFailed(files[Path(r)])

\* The execute calls of invocation r made for shell steps that have a command.
ShellExecutions(r) ==
    {i \in 1..Len(calls[r]) :
        /\ calls[r][i].op = "execute"
        /\ Scenario(r).steps[calls[r][i].step].action = "shell"
        /\ ~Falsy(Scenario(r).steps[calls[r][i].step].command)}

SuppliedSLO(raw) == raw.expected_slo # None /\ raw.expected_slo[1] # EmptyDict

\* A definition that lacks a key from_dict reads with [], or has a non-empty
\* expected_slo with an unsupported comparison, or has no steps.
Malformed(data) ==
    \/ data.title = None
    \/ data.steps = <<>>
    \/ \E i \in 1..Len(data.steps) :
         LET raw == data.steps[i]
         IN  \/ raw.id = None
             \/ raw.action = None
             \/ /\ SuppliedSLO(raw)
                /\ \/ raw.expected_slo[1].name = None
                   \/ raw.expected_slo[1].comparison = None
                   \/ raw.expected_slo[1].threshold = None
                   \/ raw.expected_slo[1].comparison[1] \notin Comparisons

\* A step _execute_step cannot dispatch: its action is not supported, or the
\* field its action needs is missing.
Undispatchable(step) ==
    \/ step.action \notin {"shell", "check-metric"}
    \/ step.action = "shell" /\ Falsy(step.command)
    \/ step.action = "check-metric" /\ Falsy(step.query)

ConfigErrors == {"ValueError", "KeyError"}

IncompleteSLO(data) ==
    \/ data.steps = <<>>
    \/ \E i \in 1..Len(data.steps) :
         /\ data.steps[i].expected_slo # None
         /\ LET slo == data.steps[i].expected_slo[1]
            IN  \/ slo.comparison = None
                \/ slo.threshold = None
                \/ slo.comparison[1] \notin Comparisons

\* C15: loading a definition that has no steps, or a step whose expected_slo is
\* supplied without comparison, without threshold, without both, or with an
\* unsupported comparison, raises: main ends there, with no catalog and no run.
C15_IncompleteSloIsRejected ==
    \A r \in Runs :
        (pc[r] \notin {"off", "load"}
            /\ \E k \in 1..Len(definitions) : IncompleteSLO(definitions[k])) =>
           /\ pc[r] = "raised"
           /\ ~inv[r].started
           /\ exc[r].type \in ConfigErrors

\* C16: when run raised because the command of a shell step exited non-zero,
\* the record written by abort holds the stdout and stderr captured from that
\* command, in the failure description or in an entry for the failing step.
C16_FailedCommandOutputPreserved ==
    \A r \in Runs :
        (pc[r] = "raised" /\ exc[r].type = "CalledProcessError"
            /\ recorder[r].finalized) =>
           LET payload == files[Path(r)]
           IN  \/ /\ HasFailed(payload)
                  /\ {"stdout", "stderr"} \subseteq DOMAIN payload.failed
                  /\ payload.failed.stdout = exc[r].stdout
                  /\ payload.failed.stderr = exc[r].stderr
               \/ /\ idx[r] <= Len(payload.steps)
                  /\ {"stdout", "stderr"} \subseteq DOMAIN payload.steps[idx[r]].detail
                  /\ payload.steps[idx[r]].detail.stdout = exc[r].stdout
                  /\ payload.steps[idx[r]].detail.stderr = exc[r].stderr

\* C17: the write that seals the recorder of a run is the last act of the run:
\* run then returns or raises, and the file written, which is the recorder's
\* whole payload, has a failed field iff run raises, the field being str() of
\* the exception that reaches the caller. run returns only with the recorder
\* sealed without failed field and returns the recorder's file path; the path
\* of a recorder is the one fixed at its construction, so the file of a failed
\* run is written at the path made for that run.
C17_FailedIffAborted ==
    /\ [][\A r \in Runs :
            /\ recorder[r].created =>
                 recorder'[r].created /\ Path(r)' = Path(r)
            /\ (recorder[r].created /\ ~recorder[r].finalized
                   /\ recorder'[r].finalized) =>
                 /\ pc'[r] \in {"returned", "raised"}
                 /\ files'[Path(r)] = recorder'[r].payload
                 /\ HasFailed(files'[Path(r)]) <=> pc'[r] = "raised"
                 /\ pc'[r] = "raised" => files'[Path(r)].failed = Str(exc'[r])
                 /\ pc'[r] = "returned" => ret'[r] = Some(Path(r))
                 /\ files'[Path(r)].scenario_id = inv[r].scenario_id
                 /\ files'[Path(r)].started_at = recorder[r].payload.started_at]_vars
    /\ [](\A r \in Runs :
            /\ pc[r] = "returned" =>
                 /\ recorder[r].finalized
                 /\ ret[r] = Some(Path(r))
                 /\ ret[r][1] \in DOMAIN files
                 /\ ~HasFailed(recorder[r].payload)
            /\ ret[r] # None => pc[r] = "returned"
            /\ (pc[r] = "raised" /\ recorder[r].created /\ recorder[r].finalized) =>
                 /\ Path(r) \in DOMAIN files
                 /\ HasFailed(recorder[r].payload)
                 /\ recorder[r].payload.failed = Str(exc[r]))

\* C17 witness: the write of finalize failed, abort then wrote the record with
\* the description of that failure, and run raised it.
C17_Witness ==
    \E r \in Runs :
        /\ pc[r] = "raised"
        /\ exc[r].type = "OSError"
        /\ recorder[r].finalized
        /\ Len(Entries(r)) = Len(Scenario(r).steps)
        /\ HasFailed(files[Path(r)])
        /\ files[Path(r)].failed = Str(exc[r])
        /\ ret[r] = None

\* The value v is on the allowed side of the threshold of slo.
Satisfies(v, slo) ==
    \/ slo.comparison = "<=" /\ v <= slo.threshold
    \/ slo.comparison = ">=" /\ v >= slo.threshold

\* C18: in a run without dry_run, a shell step with a command fails only with
\* the non-zero exit of the command and is otherwise a success; a check-metric
\* step that got a value is a success; a successful step whose value satisfies
\* its SLO (or that has no SLO, or no value) is appended with its status, with
\* slo_status met when it is a check-metric step with an SLO, and the loop goes
\* on. So when run returned and every check-metric step got a value, the record
\* has an entry with status success for every step, met for every check-metric
\* step with an SLO, and no failed field.
C18_AllGoodRunSucceeds ==
    /\ [][\A r \in Runs :
            /\ (pc[r] = "execute" /\ pc'[r] # "execute" /\ ~inv[r].dry_run) =>
                 /\ (Step(r).action = "shell" /\ ~Falsy(Step(r).command)) =>
                      /\ pc'[r] = "except" =>
                           /\ exc'[r].type = "CalledProcessError"
                           /\ exc'[r].returncode # 0
                      /\ pc'[r] = "assert" => result'[r].status = "success"
                 /\ (/\ Step(r).action = "check-metric"
                     /\ pc'[r] = "assert"
                     /\ result'[r].metric_value # None) =>
                      result'[r].status = "success"
            /\ (/\ pc[r] = "assert" /\ pc'[r] # "assert"
                /\ result[r].status = "success"
                /\ \/ Step(r).expected_slo = None
                   \/ dict_get(result[r], "metric_value") = None
                   \/ Satisfies(result[r].metric_value[1],
                                Step(r).expected_slo[1])) =>
                 /\ pc'[r] = IF idx[r] < Len(Scenario(r).steps) THEN "execute"
                             ELSE "finalize"
                 /\ Len(Entries(r)') = Len(Entries(r)) + 1
                 /\ LET e == Entries(r)'[Len(Entries(r)')]
                    IN  /\ e.status = "success"
                        /\ (Step(r).action = "check-metric"
                               /\ Step(r).expected_slo # None) =>
                             e.detail.slo_status = "met"]_vars
    /\ [](\A r \in Runs :
            (/\ pc[r] = "returned" /\ ~inv[r].dry_run
             /\ \A i \in 1..Len(Entries(r)) :
                  Entries(r)[i].action = "check-metric" =>
                     Entries(r)[i].detail.metric_value # None) =>
                /\ Len(Entries(r)) = Len(Scenario(r).steps)
                /\ ~HasFailed(recorder[r].payload)
                /\ ret[r] = Some(Path(r))
                /\ \A i \in 1..Len(Entries(r)) :
                     /\ Entries(r)[i].status = "success"
                     /\ (Entries(r)[i].action = "check-metric"
                            /\ Scenario(r).steps[i].expected_slo # None) =>
                          Entries(r)[i].detail.slo_status = "met")

\* C18 witness: a run without dry_run of a shell step and a check-metric step
\* with a `<=` SLO, whose value was below the threshold, returned with both
\* steps recorded as success, the second as met, and no failed field.
C18_Witness ==
    \E r \in Runs :
        /\ pc[r] = "returned"
        /\ ~inv[r].dry_run
        /\ Len(Entries(r)) = 2
        /\ Entries(r)[1].action = "shell" /\ Entries(r)[1].status = "success"
        /\ Entries(r)[2].action = "check-metric"
        /\ Entries(r)[2].status = "success"
        /\ "slo_status" \in DOMAIN Entries(r)[2].detail
        /\ Entries(r)[2].detail.slo_status = "met"
        /\ Entries(r)[2].detail.slo_comparison = "<="
        /\ Entries(r)[2].detail.slo_value < Entries(r)[2].detail.slo_threshold
        /\ ~HasFailed(files[Path(r)])

Printed(r) == replayed[r].done /\ ~replayed[r].raised

\* C19: what replay prints determines the record it was printed from: two
\* replays of records that differ in a stored field (an absent and an empty
\* note, say) print different texts.
C19_ReplayRoundTrips ==
    \A r1, r2 \in Runs :
        (Printed(r1) /\ Printed(r2)
            /\ replayed[r1].payload # replayed[r2].payload) =>
           replayed[r1].output # replayed[r2].output

\* C20: a replay changes nothing but the terminal of its process: every file,
\* every recorder, the catalog and every run are as before, and what it loaded
\* is the content of a file of RUN_DIR.
C20_ReplayIsReadOnly ==
    [][\A r \in Runs :
         replayed'[r] # replayed[r] =>
            /\ UNCHANGED <<scenarios, now, files, pc, inv, recorder, idx, result,
                           exc, spawned, calls, ret, definitions>>
            /\ \A q \in Runs \ {r} : replayed'[q] = replayed[q]
            /\ replayed'[r].done
            /\ ~replayed'[r].raised =>
                 \E p \in DOMAIN files :
                    /\ replayed'[r].payload = files[p]
                    /\ files'[p] = replayed'[r].payload]_vars

\* C20 witness: both processes have replayed, the second a file other than
\* the first, while the sealed file of each run still holds the run's record.
C20_Witness ==
    \E r1, r2 \in Runs :
        /\ r1 # r2
        /\ Printed(r1) /\ Printed(r2)
        /\ replayed[r1].output # replayed[r2].output
        /\ recorder[r1].finalized /\ recorder[r2].finalized
        /\ Path(r1) # Path(r2)
        /\ files[Path(r1)] = recorder[r1].payload
        /\ files[Path(r2)] = recorder[r2].payload

\* C21: a recorder is constructed unsealed, with the metadata of the run and an
\* empty step list and without a file of its own being written; it becomes
\* sealed only in a call of finalize or abort, and once sealed it stays sealed
\* whatever is called on it: append_step, finalize or abort.
C21_SealedIsTerminal ==
    [][\A r \in Runs :
         /\ (~recorder[r].created /\ recorder'[r].created) =>
              /\ ~recorder'[r].finalized
              /\ recorder'[r].payload.steps = <<>>
              /\ ~HasFailed(recorder'[r].payload)
              /\ recorder'[r].payload.scenario_id \in DOMAIN scenarios
              /\ recorder'[r].payload.started_at = strftime(now)
              /\ files' = files
         /\ recorder[r].created =>
              /\ recorder'[r].created
              /\ recorder[r].finalized => recorder'[r].finalized
              /\ (~recorder[r].finalized /\ recorder'[r].finalized) =>
                   /\ Len(calls'[r]) = Len(calls[r]) + 1
                   /\ calls'[r][Len(calls'[r])].op \in {"finalize", "abort"}]_vars

\* C21 witness: a recorder took a step, was sealed by finalize, and after an
\* append_step and an abort on the sealed recorder it is still sealed.
C21_Witness ==
    \E r \in Runs :
        /\ pc[r] = "client"
        /\ Len(calls[r]) = 4
        /\ calls[r][1].op = "append"
        /\ calls[r][2].op = "finalize"
        /\ calls[r][3].op = "append"
        /\ calls[r][4].op = "abort"
        /\ recorder[r].finalized
        /\ files[Path(r)] # Truncated
        /\ Len(files[Path(r)].steps) = 1

\* C22: run for a scenario id that is not in the catalog raises the KeyError of
\* show for that id at once: no recorder is constructed, no step is executed,
\* no process is spawned and no file is written, and the invocation does
\* nothing more afterwards.
C22_UnknownScenarioFailsFirst ==
    /\ [][\A r \in Runs :
            /\ (pc[r] = "idle" /\ pc'[r] # "idle"
                   /\ inv'[r].scenario_id \notin DOMAIN scenarios) =>
                 /\ pc'[r] = "raised"
                 /\ exc'[r] = KeyError(inv'[r].scenario_id)
                 /\ recorder'[r] = NoRecorder
                 /\ files' = files
                 /\ calls'[r] = <<>> /\ spawned'[r] = 0
            /\ (pc[r] = "raised" /\ ~Catalogued(r)) =>
                 /\ pc'[r] = "raised"
                 /\ recorder'[r] = recorder[r]
                 /\ calls'[r] = calls[r]
                 /\ exc'[r] = exc[r]]_vars
    /\ [](\A r \in Runs :
            (inv[r].started /\ ~Catalogued(r)) =>
                /\ pc[r] = "raised"
                /\ exc[r].type = "KeyError"
                /\ ~recorder[r].created
                /\ calls[r] = <<>> /\ spawned[r] = 0 /\ ret[r] = None)

\* C22 witness: run was invoked for scenario "b", which the catalog does not
\* have; it raised KeyError and RUN_DIR is empty.
C22_Witness ==
    \E r \in Runs :
        /\ pc[r] = "raised"
        /\ inv[r].started /\ inv[r].scenario_id = ScenarioB
        /\ ScenarioB \notin DOMAIN scenarios
        /\ exc[r] = KeyError(ScenarioB)
        /\ ~recorder[r].created
        /\ files = <<>>

C24_ViolationNamesMetric ==
    /\ [][\A r \in Runs :
            /\ (pc[r] = "assert" /\ pc'[r] = "except") =>
                 /\ exc'[r].type = "AssertionError"
                 /\ exc'[r].name = Step(r).expected_slo[1].name
                 /\ exc'[r].value = result[r].metric_value[1]
                 /\ exc'[r].threshold = Step(r).expected_slo[1].threshold
                 /\ exc'[r].comparison = Step(r).expected_slo[1].comparison
            /\ (pc[r] = "except" /\ pc'[r] = "raised"
                   /\ exc[r].type = "AssertionError" /\ recorder'[r].finalized) =>
                 /\ exc'[r] = exc[r]
                 /\ files'[Path(r)].failed.name = exc[r].name
                 /\ files'[Path(r)].failed.value = exc[r].value
                 /\ files'[Path(r)].failed.threshold = exc[r].threshold
            /\ (pc[r] = "except" /\ pc'[r] = "raised"
                   /\ exc[r].type # "AssertionError" /\ recorder'[r].finalized) =>
                 DOMAIN files'[Path(r)].failed
                    \cap {"name", "value", "threshold"} = {}]_vars
    /\ [](\A r \in Runs :
            (pc[r] = "raised" /\ exc[r].type = "AssertionError") =>
                /\ {"name", "value", "threshold"} \subseteq DOMAIN exc[r]
                /\ recorder[r].payload.failed = exc[r]
                /\ ~Satisfies(exc[r].value, exc[r]))

\* C24 witness: a value below the threshold of a `>=` SLO stopped the run; the
\* sealed failure description names the metric, the value and the threshold.
C24_Witness ==
    \E r \in Runs :
        /\ pc[r] = "raised"
        /\ exc[r].type = "AssertionError"
        /\ recorder[r].finalized
        /\ files[Path(r)].failed.name = "latency_p95"
        /\ files[Path(r)].failed.comparison = ">="
        /\ files[Path(r)].failed.value < files[Path(r)].failed.threshold

IdRank == (ScenarioA :> 1) @@ (ScenarioAB :> 2) @@ (ScenarioB :> 3)

\* C26: what list_scenarios returns has every scenario of the catalog, each
\* once and as the catalog has it, in ascending order of id, in whatever order
\* the definitions were loaded; the catalog has the ids of the definitions.
C26_ListingIsSortedAndComplete ==
    \A r \in Runs :
        pc[r] = "listed" =>
            LET listing == ret[r][1]
            IN  /\ DOMAIN scenarios =
                     {definitions[k].id : k \in 1..Len(definitions)}
                /\ Len(listing) = Cardinality(DOMAIN scenarios)
                /\ \A id \in DOMAIN scenarios :
                     \E i \in 1..Len(listing) : listing[i] = scenarios[id]
                /\ \A i \in 1..Len(listing) : listing[i].id \in DOMAIN scenarios
                /\ \A i, j \in 1..Len(listing) :
                     i < j => IdRank[listing[i].id] < IdRank[listing[j].id]

\* C26 witness: the definitions were loaded in the order "b", "ab", "a" and
\* the listing has the three scenarios in the order "a", "ab", "b".
C26_Witness ==
    \E r \in Runs :
        /\ pc[r] = "listed"
        /\ Len(definitions) = 3
        /\ definitions[1].id = ScenarioB
        /\ definitions[2].id = ScenarioAB
        /\ definitions[3].id = ScenarioA
        /\ Len(ret[r][1]) = 3
        /\ ret[r][1][1].id = ScenarioA
        /\ ret[r][1][2].id = ScenarioAB
        /\ ret[r][1][3].id = ScenarioB

\* The steps for which invocation r has called append_step, in call order.
RECURSIVE Appended(_)
Appended(cs) ==
    IF cs = <<>> THEN <<>>
    ELSE IF Head(cs).op = "append" THEN <<Head(cs).step>> \o Appended(Tail(cs))
    ELSE Appended(Tail(cs))

\* C27: in every state of a run the step list of its recorder has one entry
\* for each step that went through _execute_step and _assert_slo without an
\* exception, and these are the first steps of the scenario: the i-th entry is
\* made from the i-th step (id, action, status and detail of its result), also
\* when two steps have the same id. The list changes only by one entry being
\* added at its end, for the step just evaluated.
C27_EntriesAreCompletedPrefix ==
    /\ [](\A r \in Runs :
            recorder[r].created =>
                /\ Appended(calls[r]) = [i \in 1..Len(Entries(r)) |-> i]
                /\ Len(Entries(r)) <= Len(Scenario(r).steps)
                /\ \A i \in 1..Len(Entries(r)) :
                     /\ Entries(r)[i].step_id = Scenario(r).steps[i].id
                     /\ Entries(r)[i].action = Scenario(r).steps[i].action
                     /\ Entries(r)[i].status = Entries(r)[i].detail.status
                /\ pc[r] \in {"execute", "assert", "except"} =>
                     Len(Entries(r)) = idx[r] - 1)
    /\ [][\A r \in Runs :
            (recorder[r].created /\ Entries(r)' # Entries(r)) =>
                /\ pc[r] = "assert"
                /\ Len(Entries(r)') = Len(Entries(r)) + 1
                /\ SubSeq(Entries(r)', 1, Len(Entries(r))) = Entries(r)
                /\ LET e == Entries(r)'[Len(Entries(r)')]
                   IN  /\ e.step_id = Step(r).id
                       /\ e.status = result[r].status
                       /\ \A k \in DOMAIN result[r] : e.detail[k] = result[r][k]]_vars

\* C27 witness: both steps of a scenario have the same id and both were
\* completed; the list has two entries with that id.
C27_Witness ==
    \E r \in Runs :
        /\ pc[r] = "finalize"
        /\ Len(Entries(r)) = 2
        /\ Entries(r)[1].step_id = Entries(r)[2].step_id
        /\ Entries(r)[1].detail # Entries(r)[2].detail

\* C28: run has one position in the scenario, and it executes a step only as
\* the first thing it does when the step is the first, and otherwise right
\* after the execution, the evaluation and the append of the step before it,
\* in this order; the position moves by one, and only when a step has been
\* appended.
C28_OneStepAtATime ==
    /\ [](\A r \in Runs : \A k \in 1..Len(calls[r]) :
            calls[r][k].op = "execute" =>
                IF calls[r][k].step = 1 THEN k = 1
                ELSE /\ k > 3
                     /\ calls[r][k - 3] = Call("execute", calls[r][k].step - 1)
                     /\ calls[r][k - 2] = Call("assert", calls[r][k].step - 1)
                     /\ calls[r][k - 1] = Call("append", calls[r][k].step - 1))
    /\ [][\A r \in Runs :
            /\ (pc[r] = "execute" /\ calls'[r] # calls[r]) =>
                 /\ calls'[r] = Append(calls[r], Call("execute", idx[r]))
                 /\ idx'[r] = idx[r]
                 /\ pc'[r] \in {"assert", "except"}
            /\ idx'[r] # idx[r] =>
                 \/ pc[r] = "idle" /\ idx'[r] = 1 /\ pc'[r] = "execute"
                 \/ /\ pc[r] = "assert"
                    /\ idx'[r] = idx[r] + 1
                    /\ Len(Entries(r)') = idx[r]]_vars

\* C28 witness: the second step has just been executed; before it the first
\* went through execution, evaluation and append, and its process has ended.
C28_Witness ==
    \E r \in Runs :
        /\ pc[r] = "assert"
        /\ idx[r] = 2
        /\ calls[r] = <<Call("execute", 1), Call("assert", 1), Call("append", 1),
                        Call("execute", 2)>>
        /\ spawned[r] = 2
        /\ Len(Entries(r)) = 1

\* The run has called finalize or abort on its recorder.
SealingCalled(r) ==
    \E k \in 1..Len(calls[r]) : calls[r][k].op \in {"finalize", "abort"}

\* C29: until a run calls finalize or abort its recorder is unsealed and the
\* run has written nothing: a file at its path, if there is one, is the work
\* of another run with the same path that made its sealing call. Storage
\* changes only in a sealing call, by one write to the caller's path, of the
\* whole payload or of a broken-off part of it. While the step a run is
\* executing has not returned, its position, its recorder and its place in the
\* loop stay as they are, whatever the other run does.
C29_NothingPersistedBeforeSealing ==
    /\ [](\A r \in Runs : (recorder[r].created /\ ~SealingCalled(r)) =>
            /\ ~recorder[r].finalized
            /\ pc[r] \in {"execute", "assert", "finalize", "except"}
            /\ Path(r) \in DOMAIN files =>
                 \E q \in Runs \ {r} : /\ recorder[q].created
                                       /\ Path(q) = Path(r)
                                       /\ SealingCalled(q))
    /\ [][/\ files' # files =>
               \E r \in Runs :
                   /\ pc[r] \in {"finalize", "except"}
                   /\ Len(calls'[r]) = Len(calls[r]) + 1
                   /\ calls'[r][Len(calls'[r])].op \in {"finalize", "abort"}
                   /\ DOMAIN files' = DOMAIN files \cup {Path(r)}
                   /\ \A p \in DOMAIN files : p # Path(r) => files'[p] = files[p]
                   /\ files'[Path(r)] \in {recorder'[r].payload, Truncated}
          /\ \A r \in Runs : (pc[r] = "execute" /\ calls'[r] = calls[r]) =>
                  /\ pc'[r] = pc[r]
                  /\ idx'[r] = idx[r]
                  /\ recorder'[r] = recorder[r]]_vars

\* C29 witness: one run is executing its step, unsealed and with no file at
\* its path, while the other has returned and its record is in storage.
C29_Witness ==
    \E r \in Runs, q \in Runs :
        /\ pc[r] = "execute"
        /\ ~recorder[r].finalized
        /\ Path(r) \notin DOMAIN files
        /\ pc[q] = "returned"
        /\ Path(q) \in DOMAIN files

\* The run is over: it returned or its exception went to the caller.
Terminated(r) == pc[r] \in {"returned", "raised"}

\* C30: with every step eventually returning or failing, a run that has its
\* recorder eventually terminates, and with the recorder sealed unless the
\* write of the record failed. A terminated run that completed fewer steps
\* than the scenario has ended with an exception, its last acts being the
\* execution or the evaluation of the first step it did not complete and then
\* abort; a sealed record names the failure, an error of the step for an
\* execution and an SLO violation for an evaluation. A run that returned
\* completed every step.
C30_RunTerminatesSealed ==
    /\ \A r \in Runs :
         recorder[r].created ~>
             (/\ recorder[r].created
              /\ Terminated(r)
              /\ recorder[r].finalized \/ exc[r] = OSError(Path(r)))
    /\ [](\A r \in Runs : (recorder[r].created /\ Terminated(r)) =>
            /\ pc[r] = "returned" =>
                 Len(Entries(r)) = Len(Scenario(r).steps) /\ recorder[r].finalized
            /\ Len(Entries(r)) < Len(Scenario(r).steps) =>
                 LET n == Len(calls[r])
                     k == Len(Entries(r)) + 1
                 IN  /\ pc[r] = "raised"
                     /\ n >= 2
                     /\ calls[r][n] = Call("abort", 0)
                     /\ calls[r][n - 1] \in {Call("execute", k), Call("assert", k)}
                     /\ SubSeq(calls[r], 1, 3 * (k - 1)) = FullTrace(k - 1)
                     /\ recorder[r].finalized =>
                          /\ HasFailed(recorder[r].payload)
                          /\ recorder[r].payload.failed.type \in
                               IF calls[r][n - 1].op = "execute"
                               THEN {"ValueError", "CalledProcessError", "URLError"}
                               ELSE {"AssertionError"})

\* C30 witness: a run of a two-step scenario ended sealed after its first
\* step was completed and the command of the second failed.
C30_Witness ==
    \E r \in Runs :
        /\ pc[r] = "raised"
        /\ recorder[r].created
        /\ recorder[r].finalized
        /\ Len(Scenario(r).steps) = 2
        /\ Len(Entries(r)) = 1
        /\ exc[r].type = "CalledProcessError"
        /\ Path(r) \in DOMAIN files
        /\ files[Path(r)] = recorder[r].payload

\* The keys _assert_slo puts in a report.
SloFields == {"slo_name", "slo_threshold", "slo_comparison", "slo_status",
              "slo_value"}

\* C31: _assert_slo on a step without an SLO returns the empty report for
\* every result, with or without a metric value; when run evaluates such a
\* step it never goes to the handler, and the entry appended for the step has
\* the result of _execute_step as its detail, with no SLO field in it.
C31_NoSloNoEvaluation ==
    /\ [](\A r \in Runs :
            (pc[r] = "assert" /\ Step(r).expected_slo = None) =>
                /\ _assert_slo(Step(r), result[r]) = Return(<<>>)
                /\ \A v \in {None} \cup {Some(x) : x \in Values} :
                     _assert_slo(Step(r), [status |-> "success",
                                           metric_value |-> v]) = Return(<<>>))
    /\ [][\A r \in Runs :
            (/\ pc[r] = "assert" /\ pc'[r] # "assert"
             /\ Step(r).expected_slo = None) =>
               /\ pc'[r] # "except"
               /\ exc'[r] = exc[r]
               /\ Len(Entries(r)') = Len(Entries(r)) + 1
               /\ LET e == Entries(r)'[Len(Entries(r)')]
                  IN  /\ e.step_id = Step(r).id
                      /\ e.status = result[r].status
                      /\ e.detail = result[r]
                      /\ DOMAIN e.detail \cap SloFields = {}]_vars

\* C31 witness: a check-metric step without an SLO whose query gave the
\* largest value was evaluated and appended, its detail free of SLO fields.
C31_Witness ==
    \E r \in Runs :
        /\ pc[r] = "finalize"
        /\ Len(Entries(r)) = 1
        /\ Scenario(r).steps[1].expected_slo = None
        /\ Entries(r)[1].action = "check-metric"
        /\ Entries(r)[1].detail.metric_value = Some(MaxValue)
        /\ DOMAIN Entries(r)[1].detail \cap SloFields = {}

\* C32: a step run cannot dispatch (see Undispatchable) makes _execute_step
\* raise ValueError whatever dry_run, the endpoint and the outside world are,
\* and no process is started for it. When run reaches such a step it leaves
\* the recorder as it is and goes to the handler; the run ends by raising,
\* with an entry for each earlier step and none for this one or a later one,
\* the error in the payload's failed field, and, when the write succeeds, the
\* recorder sealed and this payload in the file.
C32_MisconfiguredStepStopsRun ==
    /\ [](\A r \in Runs :
            (pc[r] = "execute" /\ Undispatchable(Step(r))) =>
                \A dry_run \in BOOLEAN, endpoint \in BOOLEAN,
                   proc \in Processes, response \in Responses :
                     LET out == _execute_step(Step(r), dry_run, endpoint, proc,
                                              response)
                     IN  /\ out.raised
                         /\ out.error.type = "ValueError"
                         /\ out.spawned = 0)
    /\ [][\A r \in Runs :
            (/\ pc[r] = "execute" /\ pc'[r] # "execute"
             /\ Undispatchable(Step(r))) =>
                /\ pc'[r] = "except"
                /\ exc'[r].type = "ValueError"
                /\ exc'[r].step = Step(r).id
                /\ recorder'[r] = recorder[r]
                /\ spawned'[r] = spawned[r]
                /\ files' = files]_vars
    /\ [](\A r \in Runs :
            (/\ pc[r] = "raised" /\ recorder[r].created
             /\ idx[r] <= Len(Scenario(r).steps)
             /\ Undispatchable(Step(r))) =>
                /\ Len(Entries(r)) = idx[r] - 1
                /\ \A i \in 1..Len(Entries(r)) :
                     Entries(r)[i].step_id = Scenario(r).steps[i].id
                /\ \A i \in 1..Len(calls[r]) : calls[r][i].step <= idx[r]
                /\ HasFailed(recorder[r].payload)
                /\ recorder[r].payload.failed.type = "ValueError"
                /\ recorder[r].finalized \/ exc[r] = OSError(Path(r))
                /\ recorder[r].finalized => files[Path(r)] = recorder[r].payload)

\* C32 witness: a dry run whose second step is a shell step with the empty
\* string for a command ended sealed, the first step recorded.
C32_Witness ==
    \E r \in Runs :
        /\ pc[r] = "raised" /\ recorder[r].created
        /\ inv[r].dry_run
        /\ idx[r] = 2 /\ Len(Scenario(r).steps) = 2
        /\ Step(r).action = "shell" /\ Step(r).command = Some("")
        /\ Len(Entries(r)) = 1
        /\ recorder[r].finalized
        /\ files[Path(r)].failed.type = "ValueError"
        /\ Len(files[Path(r)].steps) = 1

\* C33: two recorders that differ in the second they were constructed in, in
\* the scenario id or in the note have different file paths.
C33_LocationIsInjective ==
    \A r \in Runs, q \in Runs :
        (/\ recorder[r].created /\ recorder[q].created
         /\ <<recorder[r].payload.started_at, recorder[r].payload.scenario_id,
              recorder[r].payload.note>>
            # <<recorder[q].payload.started_at, recorder[q].payload.scenario_id,
                recorder[q].payload.note>>) =>
            Path(r) # Path(q)

\* C34: for a check-metric step _execute_step does the same with and without
\* dry_run: with an endpoint the query is made, its value is in the result and
\* its failure is raised. In a dry run the result of such a step carries the
\* value the query gave, _assert_slo compares it with the step's SLO as in a
\* real run, and a violation sends the run to the handler: the dry run ends
\* by raising AssertionError, its payload marked dry_run and failed, and the
\* file holds this payload when the write succeeds. No process is started.
C34_DryRunStillChecksMetrics ==
    /\ [](\A r \in Runs :
            (/\ pc[r] = "execute" /\ Step(r).action = "check-metric"
             /\ ~Falsy(Step(r).query)) =>
                \A endpoint \in BOOLEAN, proc \in Processes, response \in Responses :
                    LET dry == _execute_step(Step(r), TRUE, endpoint, proc, response)
                    IN  /\ dry = _execute_step(Step(r), FALSE, endpoint, proc,
                                               response)
                        /\ (endpoint /\ ~response.ok) =>
                             dry.raised /\ dry.error.type = "URLError"
                        /\ (endpoint /\ response.ok) =>
                             ~dry.raised /\ dry.value.metric_value = response.value)
    /\ [][\A r \in Runs :
            (/\ pc[r] = "assert" /\ pc'[r] # "assert"
             /\ inv[r].dry_run
             /\ Step(r).action = "check-metric"
             /\ Step(r).expected_slo # None
             /\ result[r].metric_value # None) =>
                LET slo == Step(r).expected_slo[1]
                    v == result[r].metric_value[1]
                IN  IF Satisfies(v, slo)
                    THEN /\ pc'[r] # "except"
                         /\ Entries(r)'[Len(Entries(r)')].detail.slo_status = "met"
                         /\ Entries(r)'[Len(Entries(r)')].detail.slo_value = v
                    ELSE /\ pc'[r] = "except"
                         /\ exc'[r] = AssertionError(Step(r), v)
                         /\ Entries(r)' = Entries(r)]_vars
    /\ [](\A r \in Runs :
            (/\ pc[r] = "raised" /\ recorder[r].created /\ inv[r].dry_run
             /\ HasFailed(recorder[r].payload)
             /\ recorder[r].payload.failed.type = "AssertionError") =>
                /\ spawned[r] = 0
                /\ recorder[r].payload.dry_run
                /\ Len(Entries(r)) = idx[r] - 1
                /\ recorder[r].finalized \/ exc[r] = OSError(Path(r))
                /\ recorder[r].finalized => files[Path(r)] = recorder[r].payload)

\* C34 witness: a dry run skipped its shell step, queried the metric of its
\* second step, found the `<=` SLO violated and ended with a failed record.
C34_Witness ==
    \E r \in Runs :
        /\ pc[r] = "raised" /\ recorder[r].created
        /\ inv[r].dry_run /\ inv[r].endpoint
        /\ exc[r].type = "AssertionError"
        /\ exc[r].comparison = "<=" /\ exc[r].value > exc[r].threshold
        /\ Len(Entries(r)) = 1
        /\ Entries(r)[1].action = "shell" /\ Entries(r)[1].status = "skipped"
        /\ recorder[r].finalized
        /\ files[Path(r)].dry_run
        /\ files[Path(r)].failed = exc[r]
        /\ spawned[r] = 0

\* The entries have a status of success or skipped, and those with an SLO status
\* have met or pending.
CleanEntries(entries) ==
    \A i \in 1..Len(entries) :
        /\ entries[i].status \in {"success", "skipped"}
        /\ entries[i].detail.status = entries[i].status
        /\ "slo_status" \in DOMAIN entries[i].detail =>
               entries[i].detail.slo_status \in {"met", "pending"}

\* C35: the entries of a run's recorder, and the entries of every whole record
\* in a file, have status success or skipped and, if they have an SLO status,
\* met or pending. A step whose execution or evaluation raises gets no entry.
C35_NoFailedEntries ==
    /\ [](\A r \in Runs : recorder[r].created => CleanEntries(Entries(r)))
    /\ [](\A p \in DOMAIN files :
            files[p] # Truncated => CleanEntries(files[p].steps))
    /\ [][\A r \in Runs :
            (pc[r] \in {"execute", "assert"} /\ pc'[r] = "except") =>
                Entries(r)' = Entries(r)]_vars

\* C35 witness: the file of a run that ended on a violated SLO holds one
\* entry, of the step before, which is skipped and pending.
C35_Witness ==
    \E r \in Runs :
        /\ pc[r] = "raised" /\ recorder[r].created /\ recorder[r].finalized
        /\ exc[r].type = "AssertionError"
        /\ Len(files[Path(r)].steps) = 1
        /\ files[Path(r)].steps[1].status = "skipped"
        /\ "slo_status" \in DOMAIN files[Path(r)].steps[1].detail
        /\ files[Path(r)].steps[1].detail.slo_status = "pending"

\* C36: on a sealed recorder append_step still adds an entry at the end of the
\* payload's step list and abort still puts its error in the payload's failed
\* field; neither changes any file or the sealed flag. The file of a recorder
\* that finalize sealed with a payload without failure has no failed field,
\* then and after every later call.
C36_SealedPayloadStillMutable ==
    [][\A r \in Runs :
         /\ (/\ recorder[r].created /\ recorder[r].finalized
             /\ calls'[r] # calls[r]) =>
               LET op == calls'[r][Len(calls'[r])].op
               IN  /\ files' = files
                   /\ recorder'[r].finalized
                   /\ recorder'[r].file_path = recorder[r].file_path
                   /\ op = "append" =>
                        /\ Len(Entries(r)') = Len(Entries(r)) + 1
                        /\ SubSeq(Entries(r)', 1, Len(Entries(r))) = Entries(r)
                        /\ Len(Entries(r)') > Len(files[Path(r)].steps)
                   /\ op = "abort" =>
                        /\ HasFailed(recorder'[r].payload)
                        /\ recorder'[r].payload.failed \in ClientErrors
                        /\ Entries(r)' = Entries(r)
                   /\ op = "finalize" => recorder'[r] = recorder[r]
                   /\ HasFailed(files'[Path(r)]) <=> HasFailed(files[Path(r)])
         /\ (/\ recorder[r].created /\ ~recorder[r].finalized
             /\ recorder'[r].finalized
             /\ ~HasFailed(recorder[r].payload)
             /\ calls'[r][Len(calls'[r])].op = "finalize") =>
               ~HasFailed(files'[Path(r)])]_vars

\* C36 witness: finalize sealed the recorder with no entry; an append_step
\* and an abort followed, the payload has the entry and the error, and the
\* file has neither.
C36_Witness ==
    \E r \in Runs :
        /\ pc[r] = "client"
        /\ recorder[r].finalized
        /\ calls[r] = <<Call("finalize", 0), Call("append", 0), Call("abort", 0)>>
        /\ Len(Entries(r)) = 1
        /\ HasFailed(recorder[r].payload)
        /\ files[Path(r)].steps = <<>>
        /\ ~HasFailed(files[Path(r)])

\* C37: a recorder is sealed only together with a completed write: a sealed
\* recorder's file is there and whole. When the loop is through and
\* finalize's write fails, the recorder stays unsealed with its payload as it
\* was, and run goes to its handler with the OSError; the handler's abort puts
\* the error in the payload and writes again, sealing the recorder if this
\* write succeeds, and run raises: it returns no path.
C37_SealedOnlyAfterWrite ==
    /\ [](\A r \in Runs : (recorder[r].created /\ recorder[r].finalized) =>
            /\ Path(r) \in DOMAIN files
            /\ files[Path(r)] # Truncated)
    /\ [](\A r \in Runs : pc[r] \in {"except", "raised"} => ret[r] = None)
    /\ [][\A r \in Runs :
            /\ (pc[r] = "finalize" /\ pc'[r] # "finalize") =>
                 \/ /\ pc'[r] = "returned"
                    /\ recorder'[r].finalized
                    /\ files'[Path(r)] = recorder[r].payload
                    /\ ret'[r] = Some(Path(r))
                 \/ /\ pc'[r] = "except"
                    /\ exc'[r] = OSError(Path(r))
                    /\ recorder'[r] = recorder[r]
                    /\ ~recorder'[r].finalized
                    /\ Path(r) \in DOMAIN files' => files'[Path(r)] = Truncated
            /\ (/\ pc[r] = "except" /\ pc'[r] = "raised"
                /\ idx[r] = Len(Scenario(r).steps) + 1) =>
                 /\ exc[r] = OSError(Path(r))
                 /\ ~recorder[r].finalized
                 /\ calls'[r] = Append(calls[r], Call("abort", 0))
                 /\ calls[r][Len(calls[r])] = Call("finalize", 0)
                 /\ recorder'[r].payload.failed = Str(exc[r])
                 /\ Entries(r)' = Entries(r)
                 /\ exc'[r] = OSError(Path(r))
                 /\ IF recorder'[r].finalized
                    THEN files'[Path(r)] = recorder'[r].payload
                    ELSE Path(r) \in DOMAIN files' =>
                             files'[Path(r)] = Truncated]_vars

\* C37 witness: every step of a two-step run succeeded, the write of finalize
\* failed, the write of abort succeeded: the run raised OSError, and the file
\* holds both entries and the error.
C37_Witness ==
    \E r \in Runs :
        /\ pc[r] = "raised" /\ recorder[r].created
        /\ calls[r] = FullTrace(2) \o <<Call("finalize", 0), Call("abort", 0)>>
        /\ exc[r].type = "OSError"
        /\ ret[r] = None
        /\ recorder[r].finalized
        /\ Len(files[Path(r)].steps) = 2
        /\ files[Path(r)].failed = Str(exc[r])

\* C38: when _execute_step returns for a check-metric step, the result has
\* status success if the query gave a value and skipped if it gave none, and
\* carries what the query gave as metric_value. The value zero is a value: the
\* result is success, and for a step with an SLO _assert_slo compares it with
\* the threshold, so the step is appended as met with slo_value 0 or the run
\* goes to the handler with AssertionError; it is never pending.
C38_MetricValuePresence ==
    /\ [](\A r \in Runs :
            (/\ pc[r] = "execute" /\ Step(r).action = "check-metric"
             /\ ~Falsy(Step(r).query)) =>
                \A dry_run \in BOOLEAN, proc \in Processes, response \in Responses :
                    LET out == _execute_step(Step(r), dry_run, TRUE, proc, response)
                    IN  response.ok =>
                          /\ ~out.raised
                          /\ out.value.metric_value = response.value
                          /\ out.value.status =
                               IF response.value # None THEN "success" ELSE "skipped")
    /\ [][\A r \in Runs :
            /\ (/\ pc[r] = "execute" /\ pc'[r] = "assert"
                /\ Step(r).action = "check-metric") =>
                 /\ result'[r].status \in {"success", "skipped"}
                 /\ result'[r].status = "success" <=> result'[r].metric_value # None
                 /\ result'[r].metric_value # None => inv[r].endpoint
            /\ (/\ pc[r] = "assert" /\ pc'[r] # "assert"
                /\ Step(r).action = "check-metric"
                /\ result[r].metric_value = Some(0)) =>
                 /\ result[r].status = "success"
                 /\ Step(r).expected_slo # None =>
                      IF Satisfies(0, Step(r).expected_slo[1])
                      THEN LET e == Entries(r)'[Len(Entries(r)')]
                           IN  /\ Len(Entries(r)') = Len(Entries(r)) + 1
                               /\ e.status = "success"
                               /\ e.detail.metric_value = Some(0)
                               /\ e.detail.slo_status = "met"
                               /\ e.detail.slo_value = 0
                      ELSE /\ pc'[r] = "except"
                           /\ exc'[r].type = "AssertionError"
                           /\ exc'[r].value = 0]_vars

\* C38 witness: the query of the first step gave zero; the step is recorded as
\* success with the value zero, which met its `<=` SLO.
C38_Witness ==
    \E r \in Runs :
        /\ recorder[r].created
        /\ Len(Entries(r)) >= 1
        /\ Entries(r)[1].action = "check-metric"
        /\ Entries(r)[1].status = "success"
        /\ Entries(r)[1].detail.metric_value = Some(0)
        /\ "slo_status" \in DOMAIN Entries(r)[1].detail
        /\ Entries(r)[1].detail.slo_status = "met"
        /\ Entries(r)[1].detail.slo_comparison = "<="
        /\ Entries(r)[1].detail.slo_value = 0

\* C39: no step of a run changes the catalog: every scenario keeps its id, its
\* title and its steps. A run's recorder starts from the scenario and the
\* arguments of the call alone, with an empty step list and no failure; the
\* result of a step is what _execute_step makes of the step and the outside
\* world at that execution, and the entry appended for it is built from this
\* result and its report only, whatever ran before.
C39_RunLeavesCatalogAlone ==
    /\ [][scenarios' = scenarios]_vars
    /\ [](\A id \in DOMAIN scenarios :
            /\ scenarios[id] = ChaosScenario(id, scenarios[id].steps)
            /\ \A i \in 1..Len(scenarios[id].steps) :
                 scenarios[id].steps[i] \in ConcStepPool)
    /\ [][\A r \in Runs :
            /\ (pc[r] = "idle" /\ pc'[r] = "execute") =>
                 /\ recorder'[r] = ChaosRunRecorder(scenarios[inv'[r].scenario_id],
                                                    inv'[r].note, inv'[r].dry_run, now)
                 /\ Entries(r)' = <<>>
                 /\ ~HasFailed(recorder'[r].payload)
                 /\ result'[r] = <<>>
                 /\ calls'[r] = <<>>
            /\ (pc[r] = "execute" /\ pc'[r] = "assert") =>
                 \E proc \in Processes, response \in Responses :
                     LET out == _execute_step(Step(r), inv[r].dry_run,
                                              inv[r].endpoint, proc, response)
                     IN  ~out.raised /\ result'[r] = out.value
            /\ (pc[r] = "assert" /\ Entries(r)' # Entries(r)) =>
                 Entries(r)' =
                     Append(Entries(r),
                            [step_id |-> Step(r).id, action |-> Step(r).action,
                             status |-> result[r].status,
                             detail |-> _assert_slo(Step(r), result[r]).value
                                           @@ result[r]])]_vars

\* C39 witness: a run of a scenario failed on its command and left a failed
\* record; a dry run of the same scenario after it returned, and its record,
\* which took the place of the first in the file, has no failure and the
\* step as skipped.
C39_Witness ==
    \E r \in Runs, q \in Runs :
        /\ pc[q] = "raised" /\ recorder[q].created /\ recorder[q].finalized
        /\ ~inv[q].dry_run
        /\ HasFailed(recorder[q].payload)
        /\ pc[r] = "returned"
        /\ inv[r].dry_run
        /\ inv[r].scenario_id = inv[q].scenario_id
        /\ files[Path(r)] = recorder[r].payload
        /\ Path(q) = Path(r)
        /\ ~HasFailed(recorder[r].payload)
        /\ Len(Entries(r)) = Len(Scenario(r).steps)
        /\ Entries(r)[1].status = "skipped"

====
